---- MODULE Spec2Model ----
(***************************************************************************)
(* Model of the derived-aggregate consistency engine of the expense        *)
(* tracker: the DataProvider of src/src/contexts/DataContext.tsx, its      *)
(* asynchronous persistence, the two remote snapshot listeners and the     *)
(* ledger store they talk to.                                              *)
(*                                                                         *)
(* Every handler is one action.  An action covers the synchronous run of   *)
(* the handler up to its first await, the React render that follows and    *)
(* the effects that render schedules.  The part of a handler after an      *)
(* await is a second action that takes the head of the pending queue; it   *)
(* reads the values the handler's closure captured when it was called.     *)
(* Amounts are integers (hundredths).                                      *)
(***************************************************************************)
EXTENDS Integers, Sequences, FiniteSets, TLC

\* ------------------------------------------------------------------ bounds
MaxId == 3          \* ids handed out by generateId
MaxAmount == 2      \* largest amount of a transaction or starting balance
MaxPending == 1     \* persistence calls in flight
MaxSnap == 2        \* snapshots in flight per collection

Amounts == 1..MaxAmount
Balances == 0..MaxAmount
Titles == {"a", "A", "b"}
UserId == "u1"
NoUser == "none"
NoId == 0

\* observer values: phase names the watched run, acct the account it is on,
\* dropped counts the entries a snapshot removed from the working set
Watch(phase, acct, dropped) ==
  [phase |-> phase, acct |-> acct, dropped |-> dropped]

Idle == Watch("idle", NoId, 0)

NoAccount ==
  [id |-> NoId, startingBalance |-> 0, totalIncome |-> 0,
   totalExpense |-> 0, currentBalance |-> 0]

VARIABLES
  user,                 \* useAuth().user: NoUser or UserId
  bankAccounts,         \* useState<BankAccount[]>
  selectedBankAccount,  \* useState<BankAccount | null>, NoAccount for null
  incomes,              \* useState<Income[]>
  expenses,             \* useState<Expense[]>
  savingsGoals,         \* useState<SavingsGoal[]>
  totalIncome,          \* useState(0), set by the incomes listener
  totalExpense,         \* useState(0), set by the expenses listener
  monthlySavings,       \* useState(0)
  storeAccounts,        \* ledger store: bank accounts
  storeIncomes,         \* ledger store: incomes
  storeExpenses,        \* ledger store: expenses (remote collection)
  storeGoals,           \* ledger store: savings goals
  expListeners,         \* accounts with a subscribed expenses listener
  incListeners,         \* accounts with a subscribed incomes listener
  snapExp,              \* expenses snapshots emitted and not yet delivered
  snapInc,              \* incomes snapshots emitted and not yet delivered
  pending,              \* handlers suspended at an await, in call order
  nextId,               \* generateId
  trace,                \* observer: where a watched run of handlers stands
  budgets,              \* useState<Budget[]>
  budgetProgress,       \* useState<Record<string, number>>, by budget id
  storeBudgets,         \* ledger store: budgets
  today,                \* new Date(): the number of the current month
  allReminders,         \* BillReminderProvider: useState<BillReminder[]>([])
  reminders,            \* BillReminderProvider: the signed-in user's reminders
  isInitialized,        \* BillReminderProvider: useState(false)
  localStorage,         \* localStorage.getItem(BILL_REMINDERS_KEY)
  reminderUpdates,      \* state updates queued for the next render
  effects               \* passive effects: "mount", "due" or "flushed"

vars ==
  <<user, bankAccounts, selectedBankAccount, incomes, expenses, savingsGoals,
    totalIncome, totalExpense, monthlySavings, storeAccounts, storeIncomes,
    storeExpenses, storeGoals, expListeners, incListeners, snapExp, snapInc,
    pending, nextId, trace, budgets, budgetProgress, storeBudgets, today,
    allReminders, reminders, isInitialized, localStorage, reminderUpdates,
    effects>>

\* no budget is entered and the month does not change
NoBudgets == UNCHANGED <<budgets, budgetProgress, storeBudgets, today>>

\* the provider before any budget is entered; the empty function is {}
BudgetsEmpty ==
  /\ budgets = <<>>
  /\ budgetProgress = [id \in {} |-> 0]
  /\ storeBudgets = <<>>
  /\ today = 1

\* localStorage holds a text or nothing: what JSON.parse makes of the text
\* decides the load, so a text is kept as the kind of value it encodes
NoItem == [kind |-> "null", items |-> <<>>]

\* the bill reminders are left alone
NoReminders == UNCHANGED <<allReminders, reminders, isInitialized, localStorage, reminderUpdates, effects>>

\* BillReminderProvider rendered for the first time, its effects not yet run
RemindersUnmounted ==
  /\ allReminders = <<>>
  /\ reminders = <<>>
  /\ isInitialized = FALSE
  /\ localStorage = NoItem
  /\ reminderUpdates = <<>>
  /\ effects = "mount"

\* ----------------------------------------------------------------- helpers
RECURSIVE SumAmounts(_)
SumAmounts(s) ==
  IF s = <<>> THEN 0 ELSE Head(s).amount + SumAmounts(Tail(s))

Max(a, b) == IF a >= b THEN a ELSE b

toLowerCase(t) == IF t = "A" THEN "a" ELSE IF t = "B" THEN "b" ELSE t

\* prev.map(x => x.id === e.id ? e : x), prev.filter(x => x.id !== id),
\* list.find(x => x.id === id)
Replace(s, e) == [k \in 1..Len(s) |-> IF s[k].id = e.id THEN e ELSE s[k]]

Without(s, id) == SelectSeq(s, LAMBDA x : x.id # id)

Find(s, id) == s[CHOOSE k \in 1..Len(s) : s[k].id = id]

Ids(s) == {s[k].id : k \in 1..Len(s)}

ForAccount(s, acct) == SelectSeq(s, LAMBDA x : x.bankAccountId = acct)


\* ------------------------------------------------------------ ledger store
\* createOrReplace(entityKind, entity)
Put(store, e) ==
  IF e.id \in Ids(store)
    THEN [k \in 1..Len(store) |-> IF store[k].id = e.id THEN e ELSE store[k]]
    ELSE Append(store, e)

RECURSIVE PutAll(_, _)
PutAll(store, es) ==
  IF es = <<>> THEN store ELSE PutAll(Put(store, Head(es)), Tail(es))

\* delete(entityKind, id, owner)
Remove(store, ids) == SelectSeq(store, LAMBDA e : e.id \notin ids)

\* listForOwner(entityKind, owner, accountScope?)
ListForOwner(store, uid, acct) ==
  SelectSeq(store, LAMBDA e :
    e.userId = uid /\ (acct = NoId \/ e.bankAccountId = acct))

getIncomes(store, uid, acct) == ListForOwner(store, uid, acct)

getSavingsGoals(store, uid, acct) == ListForOwner(store, uid, acct)

getBankAccounts(store, uid) == store

\* subscribeCollection(...): the store pushes the full collection of an
\* account to every listener subscribed to it
Emit(queue, listeners, store, acct) ==
  IF acct \in listeners
    THEN Append(queue, [acct |-> acct, items |-> ForAccount(store, acct)])
    ELSE queue

\* unsubscribe(): the listener is gone and so is what was on its way to it
UnsubscribeSet(listeners, acct) == listeners \ {acct}

Unsubscribe(queue, acct) == SelectSeq(queue, LAMBDA sn : sn.acct # acct)

\* onSnapshot(ref, callback): the listener is registered and the store
\* answers with the current contents of the collection
Subscribe(queue, store, acct) ==
  Append(queue, [acct |-> acct, items |-> ForAccount(store, acct)])

\* --------------------------------------------------- DataContext utilities
GoalKey(goal) == <<goal.userId, toLowerCase(goal.title)>>

RECURSIVE Unique(_, _)
Unique(goals, seen) ==
  IF goals = <<>> THEN <<>>
  ELSE IF GoalKey(Head(goals)) \in seen
    THEN Unique(Tail(goals), seen)
    ELSE <<Head(goals)>> \o Unique(Tail(goals), seen \cup {GoalKey(Head(goals))})

\* a removal of duplicates that compares the titles as they are written
RECURSIVE UniqueExact(_, _)
UniqueExact(goals, seen) ==
  IF goals = <<>> THEN <<>>
  ELSE IF <<Head(goals).userId, Head(goals).title>> \in seen
    THEN UniqueExact(Tail(goals), seen)
    ELSE <<Head(goals)>> \o UniqueExact(Tail(goals), seen \cup {<<Head(goals).userId, Head(goals).title>>})

removeDuplicateGoalsExact(goals) == UniqueExact(goals, {})

\* removeDuplicateGoals: the list it returns
removeDuplicateGoals(goals) == Unique(goals, {})

\* removeDuplicateGoals: the ids it deletes from storage
DuplicateGoalIds(goals) == Ids(goals) \ Ids(removeDuplicateGoals(goals))

\* the same account object with the balance taken to be the income alone
UpdatedAccountBalanceIsIncome(account, incomesArray, expensesArray) ==
  LET ti == SumAmounts(ForAccount(incomesArray, account.id))
      te == SumAmounts(ForAccount(expensesArray, account.id))
  IN [account EXCEPT !.totalIncome = ti, !.totalExpense = te,
                     !.currentBalance = ti]

\* the same account object with the sums added to the balance it had
UpdatedAccountAdded(account, incomesArray, expensesArray) ==
  LET ti == SumAmounts(ForAccount(incomesArray, account.id))
      te == SumAmounts(ForAccount(expensesArray, account.id))
  IN [account EXCEPT !.totalIncome = ti, !.totalExpense = te,
                     !.currentBalance = account.currentBalance + ti - te]

\* the same account object with the sums taken over the whole arrays
UpdatedAccountOfAll(account, incomesArray, expensesArray) ==
  LET ti == SumAmounts(incomesArray)
      te == SumAmounts(expensesArray)
  IN [account EXCEPT !.totalIncome = ti, !.totalExpense = te,
                     !.currentBalance = ti - te]

\* the account object recalculateAndUpdateTotalsWithArray hands to
\* updateBankAccount
UpdatedAccount(account, incomesArray, expensesArray) ==
  LET ti == SumAmounts(ForAccount(incomesArray, account.id))
      te == SumAmounts(ForAccount(expensesArray, account.id))
  IN [account EXCEPT !.totalIncome = ti, !.totalExpense = te,
                     !.currentBalance = ti - te]

\* the goals updateAutoTrackedSavingsForAccount saves and publishes
updateAutoTrackedSavingsForAccount(goals, bankAccountId, ti, te) ==
  [k \in 1..Len(goals) |->
    IF goals[k].bankAccountId = NoId \/ goals[k].bankAccountId = bankAccountId
      THEN [goals[k] EXCEPT !.autoTrackedAmount = Max(0, ti - te)]
      ELSE goals[k]]

\* the same update of every goal without the clamp at zero
updateAllAutoTrackedSavingsUnclamped(goals, sel) ==
  [k \in 1..Len(goals) |->
    [goals[k] EXCEPT !.autoTrackedAmount =
                       sel.totalIncome - sel.totalExpense]]

\* the goals updateAllAutoTrackedSavings saves and publishes
updateAllAutoTrackedSavings(goals, sel) ==
  [k \in 1..Len(goals) |->
    [goals[k] EXCEPT !.autoTrackedAmount =
                       Max(0, sel.totalIncome - sel.totalExpense)]]

FindAccount(accts, id) ==
  IF \E k \in 1..Len(accts) : accts[k].id = id
    THEN accts[CHOOSE k \in 1..Len(accts) :
                 accts[k].id = id /\ \A j \in 1..(k - 1) : accts[j].id # id]
    ELSE NoAccount

\* what the closure of a handler called now holds of the published state,
\* as far as the handler reads it after its await
Closure ==
  [accts |-> bankAccounts, selId |-> selectedBankAccount.id,
   goals |-> savingsGoals, expenses |-> expenses]

\* recalculateAndUpdateTotalsWithArray up to its await: the queue of
\* suspended handlers with this call added, when the account is found
Recalculate(queue, bankAccountId, incomesArray, expensesArray, cl) ==
  LET account == FindAccount(cl.accts, bankAccountId)
  IN IF account # NoAccount
       THEN Append(queue,
              [kind |-> "recalc",
               account |-> UpdatedAccount(account, incomesArray, expensesArray),
               selId |-> cl.selId, goals |-> cl.goals])
       ELSE queue

\* ----------------------------------------------------- render and effects
\* a cleanup that leaves the listeners of the previous account subscribed
CleanupSkipped(listeners, old) == listeners

\* the cleanup the listeners effect returns: unsubscribeExpenses(),
\* unsubscribeIncomes()
Cleanup(listeners, old) == UnsubscribeSet(listeners, old)

\* The render that follows a handler and the effects it schedules.  The c*
\* arguments are the values the handler's setState calls leave; selSet says
\* that setSelectedBankAccount was given a new object.
Commit(cUser, selSet, cSel, cIncomes, cGoals, cStoreIncomes, cStoreGoals, cSnapInc, cStoreExpenses, cSnapExp) ==
  LET load == selSet /\ cSel # NoAccount
      sub == selSet /\ cUser # NoUser /\ cSel # NoAccount
      old == selectedBankAccount.id
      \* effect on [selectedBankAccount]
      loaded == getSavingsGoals(cStoreGoals, cUser, cSel.id)
      store1 == IF load /\ cUser # NoUser
                  THEN Remove(cStoreGoals, DuplicateGoalIds(loaded))
                  ELSE cStoreGoals
      goals1 == IF load THEN updateAllAutoTrackedSavings(cGoals, cSel)
                        ELSE cGoals
      store2 == IF load THEN PutAll(store1, goals1) ELSE store1
  IN /\ selectedBankAccount' = cSel
     /\ incomes' = IF load /\ cUser # NoUser
                     THEN getIncomes(cStoreIncomes, cUser, cSel.id)
                     ELSE cIncomes
     /\ savingsGoals' = goals1
     /\ storeGoals' = store2
     /\ storeIncomes' = cStoreIncomes
     /\ storeExpenses' = cStoreExpenses
     \* effect on [user, selectedBankAccount]: cleanup, then subscribe
     /\ expListeners' =
          IF ~selSet THEN expListeners
          ELSE IF sub THEN Cleanup(expListeners, old) \cup {cSel.id}
          ELSE Cleanup(expListeners, old)
     /\ incListeners' =
          IF ~selSet THEN incListeners
          ELSE IF sub THEN Cleanup(incListeners, old) \cup {cSel.id}
          ELSE Cleanup(incListeners, old)
     /\ snapExp' =
          IF ~selSet THEN cSnapExp
          ELSE IF sub
            THEN Subscribe(Unsubscribe(cSnapExp, old), cStoreExpenses, cSel.id)
          ELSE Unsubscribe(cSnapExp, old)
     /\ snapInc' =
          IF ~selSet THEN cSnapInc
          ELSE IF sub
            THEN Subscribe(Unsubscribe(cSnapInc, old), cStoreIncomes, cSel.id)
          ELSE Unsubscribe(cSnapInc, old)

\* a render in which selectedBankAccount keeps its object
Keep(cIncomes, cGoals, cStoreIncomes, cStoreGoals, cSnapInc) ==
  Commit(user, FALSE, selectedBankAccount, cIncomes, cGoals, cStoreIncomes,
         cStoreGoals, cSnapInc, storeExpenses, snapExp)

TypeInit ==
  /\ user = NoUser
  /\ bankAccounts = <<>>
  /\ selectedBankAccount = NoAccount
  /\ incomes = <<>>
  /\ expenses = <<>>
  /\ savingsGoals = <<>>
  /\ totalIncome = 0
  /\ totalExpense = 0
  /\ monthlySavings = 0
  /\ storeAccounts = <<>>
  /\ storeIncomes = <<>>
  /\ storeExpenses = <<>>
  /\ storeGoals = <<>>
  /\ expListeners = {}
  /\ incListeners = {}
  /\ snapExp = <<>>
  /\ snapInc = <<>>
  /\ pending = <<>>
  /\ nextId = 1
  /\ trace = Idle
  /\ BudgetsEmpty /\ RemindersUnmounted

Init == TypeInit

\* ---------------------------------------------------------------- session
\* the user signs in: the effect on [user] calls refreshData
Login ==
  /\ user = NoUser
  /\ user' = UserId
  /\ pending' = Append(pending, [kind |-> "refresh", selId |-> selectedBankAccount.id])
  /\ UNCHANGED <<bankAccounts, selectedBankAccount, incomes, expenses,
                 savingsGoals, totalIncome, totalExpense, monthlySavings,
                 storeAccounts, storeIncomes, storeExpenses, storeGoals,
                 expListeners, incListeners, snapExp, snapInc, nextId>>

\* refreshData up to await getBankAccounts
RefreshData ==
  /\ user # NoUser
  /\ Len(pending) < MaxPending
  /\ pending' = Append(pending, [kind |-> "refresh", selId |-> selectedBankAccount.id])
  /\ UNCHANGED <<user, bankAccounts, selectedBankAccount, incomes, expenses,
                 savingsGoals, totalIncome, totalExpense, monthlySavings,
                 storeAccounts, storeIncomes, storeExpenses, storeGoals,
                 expListeners, incListeners, snapExp, snapInc, nextId>>

\* refreshData after await getBankAccounts
RefreshDataLoaded ==
  /\ pending # <<>>
  /\ Head(pending).kind = "refresh"
  /\ LET currentAccountId == Head(pending).selId
         accounts == getBankAccounts(storeAccounts, user)
         selSet == Len(accounts) > 0 /\ currentAccountId = NoId
         goals == getSavingsGoals(storeGoals, user, currentAccountId)
     IN /\ bankAccounts' = accounts
        /\ Commit(user, selSet,
                  IF selSet THEN accounts[1] ELSE selectedBankAccount,
                  getIncomes(storeIncomes, user, currentAccountId),
                  removeDuplicateGoals(goals),
                  storeIncomes,
                  Remove(storeGoals, DuplicateGoalIds(goals)),
                  snapInc, storeExpenses, snapExp)
  /\ pending' = Tail(pending)
  /\ UNCHANGED <<user, expenses, totalIncome, totalExpense, monthlySavings,
                 storeAccounts, nextId>>

\* ----------------------------------------------------------- bank accounts
\* an account created with no income yet
NewAccountWithoutIncome(id, startingBalance) ==
  [id |-> id, startingBalance |-> startingBalance,
   totalIncome |-> 0, totalExpense |-> 0,
   currentBalance |-> startingBalance]

\* the account addBankAccount builds
NewAccount(id, startingBalance) ==
  [id |-> id, startingBalance |-> startingBalance,
   totalIncome |-> startingBalance, totalExpense |-> 0,
   currentBalance |-> startingBalance]

\* addBankAccount up to await saveBankAccountToStorage; the id of the
\* 'Initial Balance' income is the one generated right after the account's
AddBankAccount(startingBalance) ==
  /\ user # NoUser
  /\ Len(pending) < MaxPending
  /\ nextId + (IF startingBalance > 0 THEN 1 ELSE 0) <= MaxId
  /\ pending' = Append(pending,
       [kind |-> "addAccount", account |-> NewAccount(nextId, startingBalance),
        cl |-> Closure])
  /\ nextId' = nextId + (IF startingBalance > 0 THEN 2 ELSE 1)
  /\ UNCHANGED <<user, bankAccounts, selectedBankAccount, incomes, expenses,
                 savingsGoals, totalIncome, totalExpense, monthlySavings,
                 storeAccounts, storeIncomes, storeExpenses, storeGoals,
                 expListeners, incListeners, snapExp, snapInc>>

\* addBankAccount after the await: the account is published and selected and
\* addIncome seeds the starting balance
AddBankAccountSaved ==
  /\ pending # <<>>
  /\ Head(pending).kind = "addAccount"
  /\ LET t == Head(pending)
         account == t.account
         seed == account.startingBalance > 0
         initialIncome ==
           [id |-> account.id + 1, userId |-> UserId,
            bankAccountId |-> account.id, amount |-> account.startingBalance]
         updated == Append(incomes, initialIncome)
         cStoreIncomes == IF seed THEN Put(storeIncomes, initialIncome)
                                  ELSE storeIncomes
     IN /\ storeAccounts' = Put(storeAccounts, account)
        /\ bankAccounts' = Append(bankAccounts, account)
        /\ pending' =
             IF seed
               THEN Recalculate(Tail(pending), account.id, updated,
                                t.cl.expenses, t.cl)
               ELSE Tail(pending)
        /\ Commit(user, TRUE, account,
                  IF seed THEN updated ELSE incomes,
                  savingsGoals, cStoreIncomes, storeGoals,
                  IF seed
                    THEN Emit(snapInc, incListeners, cStoreIncomes, account.id)
                    ELSE snapInc,
                  storeExpenses, snapExp)
  /\ UNCHANGED <<user, expenses, totalIncome, totalExpense, monthlySavings,
                 nextId>>

\* deleteBankAccount up to await deleteBankAccountFromStorage
DeleteBankAccount(accountId) ==
  /\ user # NoUser
  /\ Len(pending) < MaxPending
  /\ pending' = Append(pending,
       [kind |-> "deleteAccount", accountId |-> accountId,
        accts |-> bankAccounts, selId |-> selectedBankAccount.id])
  /\ UNCHANGED <<user, bankAccounts, selectedBankAccount, incomes, expenses,
                 savingsGoals, totalIncome, totalExpense, monthlySavings,
                 storeAccounts, storeIncomes, storeExpenses, storeGoals,
                 expListeners, incListeners, snapExp, snapInc, nextId>>

\* deleteBankAccount after the await
DeleteBankAccountDone ==
  /\ pending # <<>>
  /\ Head(pending).kind = "deleteAccount"
  /\ LET t == Head(pending)
         remaining == SelectSeq(t.accts, LAMBDA a : a.id # t.accountId)
         wasSelected == t.selId = t.accountId
         next == IF Len(remaining) > 0 THEN remaining[1] ELSE NoAccount
     IN /\ storeAccounts' = Remove(storeAccounts, {t.accountId})
        /\ bankAccounts' =
             SelectSeq(bankAccounts, LAMBDA a : a.id # t.accountId)
        /\ Commit(user, wasSelected /\ next # selectedBankAccount,
                  IF wasSelected THEN next ELSE selectedBankAccount,
                  incomes, savingsGoals, storeIncomes, storeGoals, snapInc,
                  storeExpenses, snapExp)
  /\ pending' = Tail(pending)
  /\ UNCHANGED <<user, expenses, totalIncome, totalExpense, monthlySavings,
                 nextId>>

\* setSelectedBankAccount(account), called with an account of the list
SetSelectedBankAccount(account) ==
  /\ account # selectedBankAccount
  /\ Commit(user, TRUE, account, incomes, savingsGoals, storeIncomes,
            storeGoals, snapInc, storeExpenses, snapExp)
  /\ UNCHANGED <<user, bankAccounts, expenses, totalIncome, totalExpense,
                 monthlySavings, storeAccounts, pending, nextId>>

\* updateBankAccount after await saveBankAccountToStorage, followed by the
\* rest of recalculateAndUpdateTotalsWithArray
UpdateBankAccountSaved ==
  /\ pending # <<>>
  /\ Head(pending).kind = "recalc"
  /\ LET t == Head(pending)
         account == t.account
         updatedGoals ==
           updateAutoTrackedSavingsForAccount(t.goals, account.id,
             account.totalIncome, account.totalExpense)
     IN /\ storeAccounts' = Put(storeAccounts, account)
        /\ bankAccounts' =
             Replace(bankAccounts, account)
        /\ Commit(user, t.selId = account.id,
                  IF t.selId = account.id THEN account
                                              ELSE selectedBankAccount,
                  incomes, updatedGoals, storeIncomes,
                  PutAll(storeGoals, updatedGoals), snapInc,
                  storeExpenses, snapExp)
  /\ pending' = Tail(pending)
  /\ UNCHANGED <<user, expenses, totalIncome, totalExpense, monthlySavings,
                 nextId>>

\* a rejection that reaches the handler after it has published the change
\* of the account list
StorageErrorAfterApply ==
  /\ pending # <<>>
  /\ pending' = Tail(pending)
  /\ bankAccounts' =
       IF Head(pending).kind = "deleteAccount"
         THEN SelectSeq(bankAccounts,
                        LAMBDA a : a.id # Head(pending).accountId)
       ELSE IF Head(pending).kind = "addAccount"
         THEN Append(bankAccounts, Head(pending).account)
       ELSE bankAccounts
  /\ UNCHANGED <<user, selectedBankAccount, incomes, expenses,
                 savingsGoals, totalIncome, totalExpense, monthlySavings,
                 storeAccounts, storeIncomes, storeExpenses, storeGoals,
                 expListeners, incListeners, snapExp, snapInc, nextId>>

\* the store call a handler awaits is rejected: the rest of the handler
\* does not run
StorageError ==
  /\ pending # <<>>
  /\ pending' = Tail(pending)
  /\ UNCHANGED <<user, bankAccounts, selectedBankAccount, incomes, expenses,
                 savingsGoals, totalIncome, totalExpense, monthlySavings,
                 storeAccounts, storeIncomes, storeExpenses, storeGoals,
                 expListeners, incListeners, snapExp, snapInc, nextId>>

\* ------------------------------------------------------ incomes, expenses
\* the part of a handler that runs inside setIncomes(prev => ...)
IncomesUpdated(bankAccountId, updated, cStoreIncomes) ==
  /\ Len(snapInc) < MaxSnap
  /\ pending' = Recalculate(pending, bankAccountId, updated, expenses, Closure)
  /\ Keep(updated, savingsGoals, cStoreIncomes, storeGoals,
          Emit(snapInc, incListeners, cStoreIncomes, bankAccountId))
  /\ UNCHANGED <<user, bankAccounts, expenses, totalIncome, totalExpense,
                 monthlySavings, storeAccounts>>

AddIncome(bankAccountId, amount) ==
  /\ user # NoUser
  /\ nextId <= MaxId
  /\ LET income == [id |-> nextId, userId |-> UserId,
                    bankAccountId |-> bankAccountId, amount |-> amount]
     IN IncomesUpdated(bankAccountId, Append(incomes, income),
                       Put(storeIncomes, income))
  /\ nextId' = nextId + 1

UpdateIncome(income) ==
  /\ IncomesUpdated(income.bankAccountId,
                    Replace(incomes, income), Put(storeIncomes, income))
  /\ UNCHANGED nextId

DeleteIncome(incomeId) ==
  /\ incomeId \in Ids(incomes)
  /\ IncomesUpdated(Find(incomes, incomeId).bankAccountId,
                    Without(incomes, incomeId),
                    Remove(storeIncomes, {incomeId}))
  /\ UNCHANGED nextId

\* the part of a handler that runs inside setExpenses(prev => ...); the
\* expense itself is not written to the store
ExpensesUpdated(bankAccountId, updated, recalc) ==
  /\ pending' = IF recalc
                  THEN Recalculate(pending, bankAccountId, incomes, updated,
                                   Closure)
                  ELSE pending
  /\ expenses' = updated
  /\ Keep(incomes, savingsGoals, storeIncomes, storeGoals, snapInc)
  /\ UNCHANGED <<user, bankAccounts, totalIncome, totalExpense,
                 monthlySavings, storeAccounts>>

AddExpense(bankAccountId, amount) ==
  /\ user # NoUser
  /\ nextId <= MaxId
  /\ LET expense == [id |-> nextId, userId |-> UserId,
                     bankAccountId |-> bankAccountId, amount |-> amount]
     IN ExpensesUpdated(bankAccountId,
                        Append(expenses, expense), TRUE)
  /\ nextId' = nextId + 1

UpdateExpense(expense) ==
  /\ ExpensesUpdated(expense.bankAccountId,
                     Replace(expenses, expense), TRUE)
  /\ UNCHANGED nextId

DeleteExpense(expenseId) ==
  /\ LET found == expenseId \in Ids(expenses)
     IN ExpensesUpdated(IF found THEN Find(expenses, expenseId).bankAccountId ELSE NoId,
          Without(expenses, expenseId), found)
  /\ UNCHANGED nextId

\* ------------------------------------------------------- remote snapshots
\* a callback that keeps the local entries the snapshot does not hold
ExpensesSnapshotMerged ==
  /\ snapExp # <<>>
  /\ LET items == Head(snapExp).items
         expenseList ==
           items \o SelectSeq(expenses, LAMBDA e : e.id \notin Ids(items))
     IN /\ expenses' = expenseList
        /\ totalExpense' = SumAmounts(expenseList)
        /\ monthlySavings' = totalIncome - SumAmounts(expenseList)
  /\ snapExp' = Tail(snapExp)
  /\ UNCHANGED <<user, bankAccounts, selectedBankAccount, incomes,
                 savingsGoals, totalIncome, storeAccounts, storeIncomes,
                 storeExpenses, storeGoals, expListeners, incListeners,
                 snapInc, pending, nextId>>

\* the callback of the expenses listener
ExpensesSnapshot ==
  /\ snapExp # <<>>
  /\ LET expenseList == Head(snapExp).items
     IN /\ expenses' = expenseList
        /\ totalExpense' = SumAmounts(expenseList)
        /\ monthlySavings' = totalIncome - SumAmounts(expenseList)
  /\ snapExp' = Tail(snapExp)
  /\ UNCHANGED <<user, bankAccounts, selectedBankAccount, incomes,
                 savingsGoals, totalIncome, storeAccounts, storeIncomes,
                 storeExpenses, storeGoals, expListeners, incListeners,
                 snapInc, pending, nextId>>

\* the callback of the incomes listener
IncomesSnapshot ==
  /\ snapInc # <<>>
  /\ LET incomeList == Head(snapInc).items
     IN /\ incomes' = incomeList
        /\ totalIncome' = SumAmounts(incomeList)
        /\ monthlySavings' = SumAmounts(incomeList) - totalExpense
  /\ snapInc' = Tail(snapInc)
  /\ UNCHANGED <<user, bankAccounts, selectedBankAccount, expenses,
                 savingsGoals, totalExpense, storeAccounts, storeIncomes,
                 storeExpenses, storeGoals, expListeners, incListeners,
                 snapExp, pending, nextId>>

\* another writer (the expense form, another device) adds an expense to the
\* remote collection of an account
RemoteAddExpense(bankAccountId, amount) ==
  /\ nextId <= MaxId
  /\ Len(snapExp) < MaxSnap
  /\ LET expense == [id |-> nextId, userId |-> UserId,
                     bankAccountId |-> bankAccountId, amount |-> amount]
         store == Append(storeExpenses, expense)
     IN /\ storeExpenses' = store
        /\ snapExp' = Emit(snapExp, expListeners, store, bankAccountId)
  /\ nextId' = nextId + 1
  /\ UNCHANGED <<user, bankAccounts, selectedBankAccount, incomes, expenses,
                 savingsGoals, totalIncome, totalExpense, monthlySavings,
                 storeAccounts, storeIncomes, storeGoals, expListeners,
                 incListeners, snapInc, pending>>

\* another writer adds an income to the remote collection of an account
RemoteAddIncome(bankAccountId, amount) ==
  /\ nextId <= MaxId
  /\ Len(snapInc) < MaxSnap
  /\ LET income == [id |-> nextId, userId |-> UserId,
                    bankAccountId |-> bankAccountId, amount |-> amount]
         store == Append(storeIncomes, income)
     IN /\ storeIncomes' = store
        /\ snapInc' = Emit(snapInc, incListeners, store, bankAccountId)
  /\ nextId' = nextId + 1
  /\ UNCHANGED <<user, bankAccounts, selectedBankAccount, incomes, expenses,
                 savingsGoals, totalIncome, totalExpense, monthlySavings,
                 storeAccounts, storeExpenses, storeGoals, expListeners,
                 incListeners, snapExp, pending>>

\* ---------------------------------------------------------- savings goals
GoalsUpdated(goals, store) ==
  /\ Keep(incomes, goals, storeIncomes, store, snapInc)
  /\ UNCHANGED <<user, bankAccounts, expenses, totalIncome, totalExpense,
                 monthlySavings, storeAccounts, pending>>

AddSavingsGoal(title, bankAccountId) ==
  /\ user # NoUser
  /\ nextId <= MaxId
  /\ LET existingGoal ==
           \E k \in 1..Len(savingsGoals) :
             /\ toLowerCase(savingsGoals[k].title) = toLowerCase(title)
             /\ savingsGoals[k].userId = user
         monthlySavingsNow ==
           IF selectedBankAccount # NoAccount
             THEN selectedBankAccount.totalIncome
                    - selectedBankAccount.totalExpense
             ELSE 0
         goal == [id |-> nextId, userId |-> user, title |-> title,
                  bankAccountId |-> bankAccountId,
                  autoTrackedAmount |-> Max(0, monthlySavingsNow)]
     IN IF existingGoal
          THEN /\ GoalsUpdated(savingsGoals, storeGoals)
               /\ UNCHANGED nextId
          ELSE /\ GoalsUpdated(Append(savingsGoals, goal),
                               Put(storeGoals, goal))
               /\ nextId' = nextId + 1

UpdateSavingsGoal(goal) ==
  /\ GoalsUpdated(Replace(savingsGoals, goal),
                  Put(storeGoals, goal))
  /\ UNCHANGED nextId

DeleteSavingsGoal(goalId) ==
  /\ user # NoUser
  /\ GoalsUpdated(Without(savingsGoals, goalId),
                  Remove(storeGoals, {goalId}))
  /\ UNCHANGED nextId

\* updateAllAutoTrackedSavings, as the context publishes it
UpdateAllAutoTrackedSavings ==
  /\ selectedBankAccount # NoAccount
  /\ LET updatedGoals ==
           updateAllAutoTrackedSavings(savingsGoals, selectedBankAccount)
     IN GoalsUpdated(updatedGoals,
                     PutAll(storeGoals, updatedGoals))
  /\ UNCHANGED nextId

\* ------------------------------------------------------------------- next
\* the calls the pages make: transactions and goals are entered for the
\* selected account, edits and deletions pick an entry of the published
\* lists; at most cap persistence calls are in flight
Mutation(cap) ==
  /\ Len(pending) < cap
  /\ \/ \E amount \in Amounts :
          /\ selectedBankAccount # NoAccount
          /\ \/ AddIncome(selectedBankAccount.id, amount)
             \/ AddExpense(selectedBankAccount.id, amount)
     \/ \E k \in 1..Len(incomes), amount \in Amounts :
          /\ amount # incomes[k].amount
          /\ UpdateIncome([incomes[k] EXCEPT !.amount = amount])
     \/ \E k \in 1..Len(incomes) : DeleteIncome(incomes[k].id)
     \/ \E k \in 1..Len(expenses), amount \in Amounts :
          /\ amount # expenses[k].amount
          /\ UpdateExpense([expenses[k] EXCEPT !.amount = amount])
     \/ \E k \in 1..Len(expenses) : DeleteExpense(expenses[k].id)

GoalOp ==
  \/ \E title \in Titles, acct \in {NoId} \cup Ids(bankAccounts) :
       AddSavingsGoal(title, acct)
  \/ \E k \in 1..Len(savingsGoals), title \in Titles :
       /\ title # savingsGoals[k].title
       /\ UpdateSavingsGoal([savingsGoals[k] EXCEPT !.title = title])
  \/ \E k \in 1..Len(savingsGoals) : DeleteSavingsGoal(savingsGoals[k].id)
  \/ UpdateAllAutoTrackedSavings

AccountOp ==
  \/ \E startingBalance \in Balances : AddBankAccount(startingBalance)
  \/ \E k \in 1..Len(bankAccounts) : DeleteBankAccount(bankAccounts[k].id)
  \/ \E k \in 1..Len(bankAccounts) : SetSelectedBankAccount(bankAccounts[k])
  \/ RefreshData

Resume ==
  \/ RefreshDataLoaded
  \/ AddBankAccountSaved
  \/ DeleteBankAccountDone
  \/ StorageError

RemoteWrite ==
  \E k \in 1..Len(storeAccounts), amount \in Amounts :
    \/ RemoteAddExpense(storeAccounts[k].id, amount)
    \/ RemoteAddIncome(storeAccounts[k].id, amount)

Next ==
  \/ Login /\ UNCHANGED trace /\ NoBudgets /\ NoReminders
  \/ Mutation(MaxPending) /\ UNCHANGED trace /\ NoBudgets /\ NoReminders
  \/ GoalOp /\ UNCHANGED trace /\ NoBudgets /\ NoReminders
  \/ AccountOp /\ UNCHANGED trace /\ NoBudgets /\ NoReminders
  \/ Resume /\ UNCHANGED trace /\ NoBudgets /\ NoReminders
  \/ UpdateBankAccountSaved /\ UNCHANGED trace /\ NoBudgets /\ NoReminders
  \/ RemoteWrite /\ UNCHANGED trace /\ NoBudgets /\ NoReminders
  \/ ExpensesSnapshot /\ UNCHANGED trace /\ NoBudgets /\ NoReminders
  \/ IncomesSnapshot /\ UNCHANGED trace /\ NoBudgets /\ NoReminders

Spec == Init /\ [][Next]_vars

\* ------------------------------------------------- the observed behaviours
\* The same handlers with the observer running.  It follows one mutation,
\* or two issued back to back, from a moment at which no persistence call
\* was in flight to the completion of their recomputations, and it notes the
\* delivery of a snapshot.  A second mutation may be issued while the first
\* one's recomputation awaits the store.
Launched == Len(pending') > Len(pending)

LaunchedFor == pending'[Len(pending')].account.id

WatchedMutation ==
  /\ NoBudgets /\ NoReminders
  /\ Mutation(IF trace.phase = "one" THEN MaxPending + 1 ELSE MaxPending)
  /\ trace' =
       IF ~Launched THEN Idle
       ELSE IF pending = <<>> THEN Watch("one", LaunchedFor, 0)
       ELSE IF trace.phase = "one" /\ Len(pending) = 1
                 /\ LaunchedFor = trace.acct
         THEN Watch("two", trace.acct, 0)
       ELSE Idle

WatchedSaved ==
  /\ NoBudgets /\ NoReminders
  /\ UpdateBankAccountSaved
  /\ trace' =
       IF trace.phase = "one" THEN Watch("done1", trace.acct, 0)
       ELSE IF trace.phase = "two" THEN Watch("first", trace.acct, 0)
       ELSE IF trace.phase = "first" THEN Watch("done2", trace.acct, 0)
       ELSE Idle

WatchedSnapshot ==
  \/ /\ ExpensesSnapshot
     /\ NoBudgets /\ NoReminders
     /\ trace' = Watch("expensesSnapshot", Head(snapExp).acct,
                       Cardinality(Ids(expenses) \ Ids(Head(snapExp).items)))
  \/ /\ IncomesSnapshot
     /\ NoBudgets /\ NoReminders
     /\ trace' = Watch("incomesSnapshot", Head(snapInc).acct,
                       Cardinality(Ids(incomes) \ Ids(Head(snapInc).items)))

Unwatched ==
  \/ Login /\ trace' = Idle /\ NoBudgets /\ NoReminders
  \/ GoalOp /\ trace' = Idle /\ NoBudgets /\ NoReminders
  \/ AccountOp /\ trace' = Idle /\ NoBudgets /\ NoReminders
  \/ Resume /\ trace' = Idle /\ NoBudgets /\ NoReminders
  \/ RemoteWrite /\ trace' = Idle /\ NoBudgets /\ NoReminders

NextObserved ==
  WatchedMutation \/ WatchedSaved \/ WatchedSnapshot \/ Unwatched

SpecObserved == Init /\ [][NextObserved]_vars

\* ------------------------------------------------------------------ claims
Balanced(a) == a.currentBalance = a.totalIncome - a.totalExpense

TotalsMatch(a) ==
  /\ a.totalIncome = SumAmounts(ForAccount(incomes, a.id))
  /\ a.totalExpense = SumAmounts(ForAccount(expenses, a.id))

\* C1: every account the operations produce (the published list, the
\* selected account, the store and the account a recomputation is about to
\* persist) has currentBalance = totalIncome - totalExpense.
C1_BalanceIsIncomeMinusExpense ==
  /\ \A k \in 1..Len(bankAccounts) : Balanced(bankAccounts[k])
  /\ \A k \in 1..Len(storeAccounts) : Balanced(storeAccounts[k])
  /\ Balanced(selectedBankAccount)
  /\ \A k \in 1..Len(pending) :
       pending[k].kind \in {"recalc", "addAccount"} => Balanced(pending[k].account)

\* a recomputation has stored an account with income and expenses
C1_Witness ==
  \E k \in 1..Len(bankAccounts) :
    bankAccounts[k].totalExpense > 0 /\ bankAccounts[k].totalIncome > 0

\* C2: when one local mutation on the selected account, issued with nothing
\* in flight, has run to the end of its recomputation, the account's
\* totalIncome and totalExpense are the sums over the working set.
C2_TotalsAfterOneMutation ==
  (trace.phase = "done1" /\ trace.acct = selectedBankAccount.id)
    => TotalsMatch(selectedBankAccount)

\* C3: the delivery of a snapshot leaves exactly the snapshot's items in the
\* working set of its collection, whatever the working set held before; this
\* holds for every delivery, so of two snapshots the later one decides.
C3_SnapshotReplacesWorkingSet ==
  [][/\ (/\ snapExp # <<>>
         /\ snapExp' = Tail(snapExp)
         /\ UNCHANGED <<selectedBankAccount, pending, nextId>>)
          => expenses' = Head(snapExp).items
     /\ (/\ snapInc # <<>>
         /\ snapInc' = Tail(snapInc)
         /\ UNCHANGED <<selectedBankAccount, pending, nextId, storeIncomes>>)
          => incomes' = Head(snapInc).items]_vars

\* an expenses snapshot has just removed an entry the working set held
C3_Witness ==
  /\ trace.phase = "expensesSnapshot"
  /\ trace.dropped > 0
  /\ trace.acct = selectedBankAccount.id

\* the totals of a are, or are about to be stored as, the sums over the
\* working set
RecomputedFromWorkingSet(a) ==
  \/ TotalsMatch(a)
  \/ \E k \in 1..Len(pending) :
       /\ pending[k].kind = "recalc"
       /\ pending[k].account.id = a.id
       /\ TotalsMatch(pending[k].account)

\* C4: once a snapshot of the selected account has been delivered, the
\* account totals are recomputed from it: they are the sums over the working
\* set, or a recomputation that will store these sums is in flight.
C4_SnapshotRecomputesTotals ==
  (/\ trace.phase \in {"expensesSnapshot", "incomesSnapshot"}
   /\ trace.acct = selectedBankAccount.id)
    => RecomputedFromWorkingSet(selectedBankAccount)

\* nothing is left to deliver or to persist
Settled ==
  /\ selectedBankAccount # NoAccount
  /\ pending = <<>>
  /\ snapExp = <<>>
  /\ snapInc = <<>>
  /\ expenses = ForAccount(storeExpenses, selectedBankAccount.id)
  /\ incomes = ForAccount(storeIncomes, selectedBankAccount.id)

\* C5: when nothing is left to deliver or to persist and the working set is
\* the store's collections of the selected account, the account totals are
\* the sums over the working set (no step but a new call of the user leaves
\* such a state, so this is where the coordinator has converged).
C5_Converged == Settled => TotalsMatch(selectedBankAccount)

C7_BackToBack ==
  /\ trace.phase = "two" => Len(pending) <= 1
  /\ (trace.phase = "done2" /\ trace.acct = selectedBankAccount.id)
       => TotalsMatch(selectedBankAccount)

\* C8: every income and expense of the working set belongs to the selected
\* account.
C8_WorkingSetOfSelectedAccount ==
  /\ \A k \in 1..Len(incomes) :
       incomes[k].bankAccountId = selectedBankAccount.id
  /\ \A k \in 1..Len(expenses) :
       expenses[k].bankAccountId = selectedBankAccount.id

NonNegative(goals) ==
  \A k \in 1..Len(goals) : goals[k].autoTrackedAmount >= 0

UniqueTitles(goals) ==
  \A j, k \in 1..Len(goals) :
    (j # k /\ goals[j].userId = goals[k].userId)
      => toLowerCase(goals[j].title) # toLowerCase(goals[k].title)

\* C10: no two savings goals of one owner have titles that are equal when
\* lower-cased, in the working set and in the store.
C10_UniqueGoalTitles == UniqueTitles(savingsGoals) /\ UniqueTitles(storeGoals)

\* ------------------------------------------- goals and accounts, observed
\* The same handlers with an observer that notes which goal or account
\* operation has just run, and what it was called with.
Note(phase, acct, info) ==
  [phase |-> phase, acct |-> acct, dropped |-> 0, info |-> info]

\* a goal of the signed-in owner carries this title, in the working set or
\* in the store
OwnerHasTitle(title) ==
  \E g \in {savingsGoals[k] : k \in 1..Len(savingsGoals)}
             \cup {storeGoals[k] : k \in 1..Len(storeGoals)} :
    g.userId = user /\ toLowerCase(g.title) = toLowerCase(title)

WatchedGoalOp ==
  \/ \E title \in Titles, acct \in {NoId} \cup Ids(bankAccounts) :
       /\ AddSavingsGoal(title, acct)
       /\ NoBudgets /\ NoReminders
       /\ trace' = Note("addSavingsGoal", acct,
                        [title |-> title, existed |-> OwnerHasTitle(title)])
  \/ /\ \/ \E k \in 1..Len(savingsGoals), title \in Titles :
            /\ title # savingsGoals[k].title
            /\ UpdateSavingsGoal([savingsGoals[k] EXCEPT !.title = title])
        \/ \E k \in 1..Len(savingsGoals) :
             DeleteSavingsGoal(savingsGoals[k].id)
        \/ UpdateAllAutoTrackedSavings
     /\ NoBudgets /\ NoReminders
     /\ trace' = Idle

\* a recomputation whose store call is rejected, the next mutation on the
\* same account, and the completion of that mutation's recomputation
WatchedFailure ==
  /\ NoBudgets /\ NoReminders
  /\ StorageError
  /\ trace' = IF Head(pending).kind = "recalc"
                THEN Note("failed", Head(pending).account.id, 0)
                ELSE Idle

WatchedRetry ==
  /\ NoBudgets /\ NoReminders
  /\ Mutation(MaxPending)
  /\ trace' = IF trace.phase = "failed" /\ Launched
                THEN IF LaunchedFor = trace.acct
                       THEN Note("retry", trace.acct, 0)
                       ELSE Idle
                ELSE Idle

WatchedRecovery ==
  /\ NoBudgets /\ NoReminders
  /\ UpdateBankAccountSaved
  /\ trace' = IF trace.phase = "retry"
                THEN Note("recovered", trace.acct, 0)
                ELSE Idle

\* a snapshot delivered after the failure does not end the observation
AfterDelivery == IF trace.phase = "failed" THEN trace ELSE Idle

NextWatched ==
  \/ WatchedGoalOp
  \/ WatchedFailure
  \/ WatchedRetry
  \/ WatchedRecovery
  \/ Login /\ trace' = Idle /\ NoBudgets /\ NoReminders
  \/ AccountOp /\ trace' = Idle /\ NoBudgets /\ NoReminders
  \/ RefreshDataLoaded /\ trace' = Idle /\ NoBudgets /\ NoReminders
  \/ AddBankAccountSaved /\ trace' = Idle /\ NoBudgets /\ NoReminders
  \/ DeleteBankAccountDone /\ trace' = Idle /\ NoBudgets /\ NoReminders
  \/ RemoteWrite /\ trace' = Idle /\ NoBudgets /\ NoReminders
  \/ ExpensesSnapshot /\ trace' = AfterDelivery /\ NoBudgets /\ NoReminders
  \/ IncomesSnapshot /\ trace' = AfterDelivery /\ NoBudgets /\ NoReminders

SpecWatched == Init /\ [][NextWatched]_vars

\* the amount a new goal is seeded with
SeededAmount ==
  IF selectedBankAccount = NoAccount THEN 0
  ELSE Max(0, selectedBankAccount.totalIncome
                - selectedBankAccount.totalExpense)

\* C11: addSavingsGoal with a title the owner already has, up to case, leaves
\* the working set and the stored goals as they are; otherwise it appends one
\* goal, stored as well, whose autoTrackedAmount is
\* max(0, totalIncome - totalExpense) of the selected account, or 0 when no
\* account is selected.
C11_AddSavingsGoalRejectsDuplicate ==
  [][\A title \in Titles, acct \in {NoId} \cup Ids(bankAccounts) :
       AddSavingsGoal(title, acct) =>
         IF OwnerHasTitle(title)
           THEN savingsGoals' = savingsGoals /\ storeGoals' = storeGoals
           ELSE /\ Len(savingsGoals') = Len(savingsGoals) + 1
                /\ SubSeq(savingsGoals', 1, Len(savingsGoals)) = savingsGoals
                /\ LET goal == savingsGoals'[Len(savingsGoals')]
                   IN /\ goal.title = title
                      /\ goal.autoTrackedAmount = SeededAmount
                      /\ goal \in {storeGoals'[k] : k \in 1..Len(storeGoals')}]_vars

\* addSavingsGoal has just been called with a title the owner already had
C11_Witness ==
  /\ trace.phase = "addSavingsGoal"
  /\ trace.info.existed
  /\ Cardinality({k \in 1..Len(savingsGoals) :
                    toLowerCase(savingsGoals[k].title)
                      = toLowerCase(trace.info.title)}) = 1

\* --------------------------------------------- two accounts and one goal
\* The provider as it stands once the owner has opened two accounts with no
\* starting balance, may have entered one goal, and everything has been
\* saved and delivered.  MaxFresh entries can still be created.
MaxFresh == 2

FirstAccount == NewAccount(MaxId + 1, 0)

SecondAccount == NewAccount(MaxId + 2, 0)

FirstGoal(bankAccountId) ==
  [id |-> MaxId + 3, userId |-> UserId, title |-> "a",
   bankAccountId |-> bankAccountId, autoTrackedAmount |-> 0]

InitTwoAccounts ==
  /\ user = UserId
  /\ bankAccounts = <<FirstAccount, SecondAccount>>
  /\ storeAccounts = bankAccounts
  /\ selectedBankAccount \in {FirstAccount, SecondAccount}
  /\ incomes = <<>>
  /\ expenses = <<>>
  /\ savingsGoals \in
       {<<>>} \cup {<<FirstGoal(acct)>> :
                      acct \in {NoId, FirstAccount.id, SecondAccount.id}}
  /\ storeGoals = savingsGoals
  /\ totalIncome = 0
  /\ totalExpense = 0
  /\ monthlySavings = 0
  /\ storeIncomes = <<>>
  /\ storeExpenses = <<>>
  /\ expListeners = {selectedBankAccount.id}
  /\ incListeners = {selectedBankAccount.id}
  /\ snapExp = <<>>
  /\ snapInc = <<>>
  /\ pending = <<>>
  /\ nextId = MaxId + 1 - MaxFresh
  /\ trace = Idle
  /\ BudgetsEmpty /\ RemindersUnmounted

\* the delivery of the first snapshots belongs to the change of selection
AfterSnapshot == IF trace.phase = "selected" THEN trace ELSE Idle

NextTwoAccounts ==
  \/ Mutation(MaxPending) /\ trace' = Idle /\ NoBudgets /\ NoReminders
  \/ UpdateBankAccountSaved /\ trace' = Idle /\ NoBudgets /\ NoReminders
  \/ \E k \in 1..Len(bankAccounts) :
       /\ SetSelectedBankAccount(bankAccounts[k])
       /\ NoBudgets /\ NoReminders
       /\ trace' = Note("selected", bankAccounts[k].id, selectedBankAccount.id)
  \/ (\E k \in 1..Len(savingsGoals) : DeleteSavingsGoal(savingsGoals[k].id))
       /\ NoBudgets /\ NoReminders
       /\ trace' = Idle
  \/ RemoteWrite /\ trace' = Idle /\ NoBudgets /\ NoReminders
  \/ ExpensesSnapshot /\ trace' = AfterSnapshot /\ NoBudgets /\ NoReminders
  \/ IncomesSnapshot /\ trace' = AfterSnapshot /\ NoBudgets /\ NoReminders

SpecTwoAccounts == InitTwoAccounts /\ [][NextTwoAccounts]_vars

\* C12: when the recomputation of account A stores totalIncome I and
\* totalExpense E, every goal of the working set with no bankAccountId or
\* with bankAccountId = A has autoTrackedAmount = max(0, I - E) afterwards,
\* and every goal of another account is in the working set as it was.
C12_GoalsInScopeUpdated ==
  [][UpdateBankAccountSaved =>
       LET account == Head(pending).account
           amount == Max(0, account.totalIncome - account.totalExpense)
       IN /\ \A k \in 1..Len(savingsGoals') :
               savingsGoals'[k].bankAccountId \in {NoId, account.id}
                 => savingsGoals'[k].autoTrackedAmount = amount
          /\ \A k \in 1..Len(savingsGoals) :
               savingsGoals[k].bankAccountId \notin {NoId, account.id}
                 => /\ k <= Len(savingsGoals')
                    /\ savingsGoals'[k] = savingsGoals[k]]_vars

\* ------------------------------------------------------ addBankAccount
\* what the completion of addBankAccount leaves for an account opened with a
\* positive starting balance
SeededAccount(account) ==
  LET s == account.startingBalance
      seeded(list) == SelectSeq(list, LAMBDA i : i.bankAccountId = account.id)
  IN /\ selectedBankAccount' = account
     /\ \E k \in 1..Len(bankAccounts') : bankAccounts'[k] = account
     /\ account.totalIncome = s
     /\ account.totalExpense = 0
     /\ account.currentBalance = s
     /\ Len(seeded(incomes')) = 1
     /\ seeded(incomes')[1].amount = s
     /\ seeded(storeIncomes') = seeded(incomes')

\* a recomputation of this account is in flight
RecomputationInFlight(queue, id) ==
  \E k \in 1..Len(queue) :
    queue[k].kind = "recalc" /\ queue[k].account.id = id

IncludesStartingBalance(a) == a.totalIncome >= a.startingBalance

\* C14: the totalIncome of every account, in the published list, in the
\* store and as selected, includes its startingBalance (amounts are
\* non-negative, so totalIncome >= startingBalance).
C14_TotalIncomeIncludesStartingBalance ==
  /\ \A k \in 1..Len(bankAccounts) : IncludesStartingBalance(bankAccounts[k])
  /\ \A k \in 1..Len(storeAccounts) : IncludesStartingBalance(storeAccounts[k])
  /\ IncludesStartingBalance(selectedBankAccount)

\* ---------------------------------------------------- deleteBankAccount
\* C15: when deleteBankAccount(id) completes, no account with that id is
\* left in bankAccounts; if the deleted account is the selected one, the
\* selection moves to one of the remaining accounts, or to none exactly when
\* none remains; otherwise the selection stays as it is.
C15_DeleteMovesSelection ==
  [][DeleteBankAccountDone =>
       LET id == Head(pending).accountId
       IN /\ id \notin Ids(bankAccounts')
          /\ IF selectedBankAccount.id = id
               THEN IF bankAccounts' = <<>>
                      THEN selectedBankAccount' = NoAccount
                      ELSE selectedBankAccount'.id \in Ids(bankAccounts')
               ELSE selectedBankAccount' = selectedBankAccount]_vars

\* ------------------------------------------------------------ selection
\* C16: once the owner is signed in and no load or account operation is in
\* flight, an account is selected exactly when the owner has at least one
\* account.
C16_OneSelectedIffAccounts ==
  (user # NoUser /\ pending = <<>>)
    => (selectedBankAccount # NoAccount <=> bankAccounts # <<>>)

\* the goals in the scope of account a carry the savings of the working set
GoalsFromWorkingSet(a) ==
  \A k \in 1..Len(savingsGoals) :
    savingsGoals[k].bankAccountId \in {NoId, a.id}
      => savingsGoals[k].autoTrackedAmount
           = Max(0, SumAmounts(ForAccount(incomes, a.id))
                      - SumAmounts(ForAccount(expenses, a.id)))

\* C17: when setSelectedBankAccount has moved the selection to another
\* account and the first snapshots of the new listeners are delivered, with
\* nothing else in flight, the listeners are the new account's, the working
\* set holds the new account's entries only, and the account totals and the
\* goal amounts in its scope are the ones computed from these entries.
C17_SelectionRecomputesAll ==
  (/\ trace.phase = "selected"
   /\ trace.acct = selectedBankAccount.id
   /\ pending = <<>>
   /\ snapExp = <<>>
   /\ snapInc = <<>>)
    => /\ expListeners = {selectedBankAccount.id}
       /\ incListeners = {selectedBankAccount.id}
       /\ \A k \in 1..Len(incomes) :
            incomes[k].bankAccountId = selectedBankAccount.id
       /\ \A k \in 1..Len(expenses) :
            expenses[k].bankAccountId = selectedBankAccount.id
       /\ TotalsMatch(selectedBankAccount)
       /\ GoalsFromWorkingSet(selectedBankAccount)

\* -------------------------------------------------- amounts as entered
\* The handlers as the pages can call them: the amount is whatever number
\* the caller passes, negative ones included.
MinAmount == 1

RawAmounts == (0 - MinAmount)..MaxAmount

MutationWithRawAmount ==
  /\ Len(pending) < MaxPending
  /\ \/ \E amount \in RawAmounts :
          \/ AddIncome(selectedBankAccount.id, amount)
          \/ AddExpense(selectedBankAccount.id, amount)
     \/ \E k \in 1..Len(incomes), amount \in RawAmounts :
          /\ amount # incomes[k].amount
          /\ UpdateIncome([incomes[k] EXCEPT !.amount = amount])
     \/ \E k \in 1..Len(expenses), amount \in RawAmounts :
          /\ amount # expenses[k].amount
          /\ UpdateExpense([expenses[k] EXCEPT !.amount = amount])

NextRawAmounts ==
  \/ MutationWithRawAmount /\ trace' = Idle /\ NoBudgets /\ NoReminders
  \/ UpdateBankAccountSaved /\ trace' = Idle /\ NoBudgets /\ NoReminders
  \/ ExpensesSnapshot /\ trace' = Idle /\ NoBudgets /\ NoReminders
  \/ IncomesSnapshot /\ trace' = Idle /\ NoBudgets /\ NoReminders

SpecRawAmounts == InitTwoAccounts /\ [][NextRawAmounts]_vars

\* C18: no income or expense with a negative amount gets into the working
\* set or into the store, and none is counted in the totals an account is
\* given: a mutation with such an amount is rejected before it changes
\* anything.
C18_InvalidAmountRejected ==
  /\ \A k \in 1..Len(incomes) : incomes[k].amount >= 0
  /\ \A k \in 1..Len(expenses) : expenses[k].amount >= 0
  /\ \A k \in 1..Len(storeIncomes) : storeIncomes[k].amount >= 0
  /\ \A k \in 1..Len(bankAccounts) :
       bankAccounts[k].totalIncome >= 0 /\ bankAccounts[k].totalExpense >= 0

\* ------------------------------------------------------- storage errors
\* C19: when the store rejects the account of a recomputation, the working
\* set keeps the optimistic change and the accounts and goals keep their
\* values; when a later mutation on that account has run to the end of its
\* recomputation, the account totals are the sums over the working set.
C19_StorageErrorRecovered ==
  [][/\ (StorageError /\ Head(pending).kind = "recalc") =>
          UNCHANGED <<incomes, expenses, bankAccounts, selectedBankAccount,
                      storeAccounts, savingsGoals, storeGoals>>
     /\ (trace'.phase = "recovered"
           /\ trace'.acct = selectedBankAccount'.id) =>
          /\ selectedBankAccount'.totalIncome =
               SumAmounts(ForAccount(incomes', selectedBankAccount'.id))
          /\ selectedBankAccount'.totalExpense =
               SumAmounts(ForAccount(expenses', selectedBankAccount'.id))]_vars

\* ---------------------------------------------------- financial summary
\* expense.amount / 12 and (savings / totalIncome) * 100
MonthsPerYear == 12
Percent == 100

\* Money returned by the calculations is counted in twelfths of a unit, so
\* that a yearly amount divided by twelve stays exact; a rate is a fraction
\* num / den in lowest terms with den > 0.  A date is the number of its month.
Months == 1..2
AccountIncomes == {0 - 1, 0, 1, 2, 5000}
ExpenseAmounts == {1, 12, 6000}
Frequencies == {"monthly", "yearly", "weekly"}

DatedExpenses ==
  [id : {1}, userId : {UserId}, bankAccountId : {FirstAccount.id},
   amount : ExpenseAmounts, isRecurring : BOOLEAN, frequency : Frequencies,
   date : Months]

DatedIncomes ==
  [id : {1}, userId : {UserId}, bankAccountId : {FirstAccount.id},
   amount : {1}, frequency : {"monthly", "one-time"}, date : Months]

RECURSIVE calculateMonthlyIncome(_, _)
calculateMonthlyIncome(cIncomes, date) ==
  IF cIncomes = <<>> THEN 0
  ELSE LET income == cIncomes[Len(cIncomes)]
           total == calculateMonthlyIncome(SubSeq(cIncomes, 1, Len(cIncomes) - 1), date)
       IN  IF income.frequency = "monthly"
             THEN total + MonthsPerYear * income.amount
             ELSE IF income.frequency = "yearly"
                    THEN total + income.amount
                    ELSE IF income.frequency = "one-time" /\ income.date = date
                           THEN total + MonthsPerYear * income.amount
                           ELSE total

\* a sum that counts a yearly expense in full
RECURSIVE calculateMonthlyExpensesYearlyInFull(_, _)
calculateMonthlyExpensesYearlyInFull(cExpenses, date) ==
  IF cExpenses = <<>> THEN 0
  ELSE LET expense == cExpenses[Len(cExpenses)]
           total == calculateMonthlyExpensesYearlyInFull(SubSeq(cExpenses, 1, Len(cExpenses) - 1), date)
       IN  IF expense.isRecurring /\ expense.frequency \in {"monthly", "yearly"}
             THEN total + MonthsPerYear * expense.amount
             ELSE IF ~expense.isRecurring /\ expense.date = date
                    THEN total + MonthsPerYear * expense.amount
                    ELSE total

RECURSIVE calculateMonthlyExpenses(_, _)
calculateMonthlyExpenses(cExpenses, date) ==
  IF cExpenses = <<>> THEN 0
  ELSE LET expense == cExpenses[Len(cExpenses)]
           total == calculateMonthlyExpenses(SubSeq(cExpenses, 1, Len(cExpenses) - 1), date)
       IN  IF expense.isRecurring /\ expense.frequency = "monthly"
             THEN total + MonthsPerYear * expense.amount
             ELSE IF expense.isRecurring /\ expense.frequency = "yearly"
                    THEN total + expense.amount
                    ELSE IF ~expense.isRecurring /\ expense.date = date
                           THEN total + MonthsPerYear * expense.amount
                           ELSE total

Abs(n) == IF n < 0 THEN 0 - n ELSE n

RECURSIVE Gcd(_, _)
Gcd(a, b) == IF b = 0 THEN a ELSE Gcd(b, a % b)

\* the number num / den, den # 0
Fraction(num, den) ==
  LET g == Gcd(Abs(num), Abs(den))
  IN  [num |-> (IF den < 0 THEN 0 - num ELSE num) \div g, den |-> Abs(den) \div g]

\* the fields of FinancialSummary that do not depend on the budgets
Summary(sIncome, sExpenses) ==
  [totalIncome |-> sIncome,
   totalExpenses |-> sExpenses,
   savings |-> sIncome - sExpenses,
   savingsRate |-> IF sIncome > 0
                     THEN Fraction((sIncome - sExpenses) * Percent, sIncome)
                     ELSE Fraction(0, 1),
   monthlyBudgetUsed |-> sExpenses]

\* total income taken from the month window of the incomes
calculateFinancialSummary(cIncomes, cExpenses, selectedAccount, date) ==
  Summary(calculateMonthlyIncome(cIncomes, date),
          calculateMonthlyExpenses(cExpenses, date))

calculateFinancialSummaryWithAccount(cIncomes, cExpenses, selectedAccount, date) ==
  Summary(IF selectedAccount # NoAccount
            THEN MonthsPerYear * selectedAccount.totalIncome
            ELSE 0,
          calculateMonthlyExpenses(cExpenses, date))

InitSummary ==
  /\ user = UserId
  /\ selectedBankAccount \in
       {NoAccount} \cup
       {[FirstAccount EXCEPT !.totalIncome = t, !.currentBalance = t] :
          t \in AccountIncomes}
  /\ bankAccounts =
       IF selectedBankAccount = NoAccount THEN <<>> ELSE <<selectedBankAccount>>
  /\ storeAccounts = bankAccounts
  /\ incomes \in {<<>>} \cup {<<i>> : i \in DatedIncomes}
  /\ expenses \in
       {<<>>} \cup {<<e>> : e \in DatedExpenses}
              \cup {<<e, f>> : e \in DatedExpenses,
                               f \in {x \in DatedExpenses : x.amount = 1}}
  /\ savingsGoals = <<>>
  /\ storeGoals = <<>>
  /\ totalIncome = 0
  /\ totalExpense = 0
  /\ monthlySavings = 0
  /\ storeIncomes = incomes
  /\ storeExpenses = expenses
  /\ expListeners = {}
  /\ incListeners = {}
  /\ snapExp = <<>>
  /\ snapInc = <<>>
  /\ pending = <<>>
  /\ nextId = MaxId + 1
  /\ trace \in {Note("date", selectedBankAccount.id, date) : date \in Months}
  /\ BudgetsEmpty /\ RemindersUnmounted

\* a render that computes the summary of the working set for today's month
FinancialSummary ==
  /\ NoBudgets /\ NoReminders
  /\ trace.phase = "date"
  /\ trace' = Note("summary", trace.acct,
                   [date |-> trace.info,
                    summary |-> calculateFinancialSummaryWithAccount(
                                  incomes, expenses, selectedBankAccount,
                                  trace.info)])
  /\ UNCHANGED <<user, bankAccounts, selectedBankAccount, incomes, expenses,
                 savingsGoals, totalIncome, totalExpense, monthlySavings,
                 storeAccounts, storeIncomes, storeExpenses, storeGoals,
                 expListeners, incListeners, snapExp, snapInc, pending,
                 nextId>>

NextSummary == FinancialSummary

SpecSummary == InitSummary /\ [][NextSummary]_vars

\* the monthly expenses of a list for a month: recurring monthly amounts,
\* a twelfth of recurring yearly amounts, one-time amounts dated in the month
MonthlyExpensesOf(list, date) ==
  MonthsPerYear * SumAmounts(SelectSeq(list, LAMBDA e : e.isRecurring /\ e.frequency = "monthly"))
    + SumAmounts(SelectSeq(list, LAMBDA e : e.isRecurring /\ e.frequency = "yearly"))
    + MonthsPerYear * SumAmounts(SelectSeq(list, LAMBDA e : ~e.isRecurring /\ e.date = date))

\* the first three fields of the summary, and the example of the claim
SummaryTotals(s, date) ==
  /\ s.totalIncome = MonthsPerYear * selectedBankAccount.totalIncome
  /\ selectedBankAccount = NoAccount => s.totalIncome = 0
  /\ s.totalExpenses = MonthlyExpensesOf(expenses, date)
  /\ s.savings = s.totalIncome - s.totalExpenses
  /\ (s.totalIncome = MonthsPerYear * 5000 /\ s.totalExpenses = MonthsPerYear * 6000) =>
        /\ s.savings = MonthsPerYear * (0 - 1000)
        /\ s.savingsRate = Fraction(0 - 20, 1)

\* C20: the summary has totalIncome of the selected account (0 without one),
\* the monthly expenses of the given expenses, savings = totalIncome -
\* totalExpenses, and savingsRate = savings / totalIncome * 100 when
\* totalIncome is positive and 0 when it is zero or negative.
C20_SummaryRateWhenPositive ==
  trace.phase = "summary" =>
    LET s == trace.info.summary
    IN  /\ SummaryTotals(s, trace.info.date)
        /\ IF selectedBankAccount.totalIncome > 0
             THEN s.savingsRate = Fraction(s.savings * Percent, s.totalIncome)
             ELSE s.savingsRate = Fraction(0, 1)

\* the summary of the example: income 5000, expenses 6000, rate -20
C20_Witness ==
  /\ trace.phase = "summary"
  /\ selectedBankAccount.totalIncome = 5000
  /\ trace.info.summary.totalExpenses = MonthsPerYear * 6000
  /\ trace.info.summary.savingsRate = Fraction(0 - 20, 1)

\* C20 as stated: the rate is savings / totalIncome * 100 whenever
\* totalIncome is not zero.
C20_SummaryRateWhenNonZero ==
  trace.phase = "summary" =>
    LET s == trace.info.summary
    IN  /\ SummaryTotals(s, trace.info.date)
        /\ IF selectedBankAccount.totalIncome # 0
             THEN s.savingsRate = Fraction(s.savings * Percent, s.totalIncome)
             ELSE s.savingsRate = Fraction(0, 1)

\* ------------------------------------------------------ budget progress
\* A date is the number of its month counted from the first month of a
\* year: months 1 and 2 lie in one year, month 13 in the next.
BudgetMonths == {1, 2, 13}
Categories == {"food", "rent"}
SpendAmounts == {1, 12, 350, 500}
BudgetAmounts == {0 - 1, 0, 12, 1000}
Periods == {"monthly", "yearly"}
Thresholds == {80, 120}

CategorisedExpenses ==
  [id : {1}, userId : {UserId}, bankAccountId : {FirstAccount.id},
   category : Categories, amount : SpendAmounts, isRecurring : BOOLEAN,
   frequency : Frequencies, date : BudgetMonths]

Budgets ==
  [id : {1}, userId : {UserId}, category : Categories,
   budgetAmount : BudgetAmounts, period : Periods,
   alertThreshold : Thresholds]

\* a sum that does not filter by category
calculateCategoryExpensesUnfiltered(cExpenses, category, date) ==
  calculateMonthlyExpenses(cExpenses, date)

RECURSIVE calculateCategoryExpenses(_, _, _)
calculateCategoryExpenses(cExpenses, category, date) ==
  IF cExpenses = <<>> THEN 0
  ELSE LET expense == cExpenses[Len(cExpenses)]
           total == calculateCategoryExpenses(SubSeq(cExpenses, 1, Len(cExpenses) - 1), category, date)
       IN  IF expense.category # category
             THEN total
             ELSE IF expense.isRecurring /\ expense.frequency = "monthly"
                    THEN total + MonthsPerYear * expense.amount
                    ELSE IF expense.isRecurring /\ expense.frequency = "yearly"
                           THEN total + expense.amount
                           ELSE IF ~expense.isRecurring /\ expense.date = date
                                  THEN total + MonthsPerYear * expense.amount
                                  ELSE total

\* a progress guarded against a budgetAmount of zero only
calculateBudgetProgressNonZero(cExpenses, budget, date) ==
  IF budget.budgetAmount # 0
    THEN Fraction(calculateCategoryExpenses(cExpenses, budget.category, date) * Percent, MonthsPerYear * budget.budgetAmount)
    ELSE Fraction(0, 1)

calculateBudgetProgress(cExpenses, budget, date) ==
  LET categoryExpenses == calculateCategoryExpenses(cExpenses, budget.category, date)
  IN  IF budget.budgetAmount > 0
        THEN Fraction(categoryExpenses * Percent, MonthsPerYear * budget.budgetAmount)
        ELSE Fraction(0, 1)

\* a recomputation that keeps the entries the map already had
updateAllBudgetProgressMerged(budgetsList, expensesList, date) ==
  [id \in DOMAIN budgetProgress \cup Ids(budgetsList) |->
     IF id \in Ids(budgetsList)
       THEN calculateBudgetProgress(expensesList, Find(budgetsList, id), date)
       ELSE budgetProgress[id]]

updateAllBudgetProgress(budgetsList, expensesList, date) ==
  [id \in Ids(budgetsList) |->
     calculateBudgetProgress(expensesList, Find(budgetsList, id), date)]

\* The provider with one budget and up to two expenses in its working
\* sets, before the effect on [budgets, expenses] has run.
InitProgress ==
  /\ RemindersUnmounted
  /\ user = UserId
  /\ bankAccounts = <<FirstAccount>>
  /\ storeAccounts = bankAccounts
  /\ selectedBankAccount = FirstAccount
  /\ incomes = <<>>
  /\ expenses \in
       {<<>>} \cup {<<e>> : e \in CategorisedExpenses}
              \cup {<<e, [f EXCEPT !.id = 2]>> :
                      e \in CategorisedExpenses,
                      f \in {x \in CategorisedExpenses : x.amount = 500}}
  /\ savingsGoals = <<>>
  /\ storeGoals = <<>>
  /\ totalIncome = 0
  /\ totalExpense = 0
  /\ monthlySavings = 0
  /\ storeIncomes = <<>>
  /\ storeExpenses = expenses
  /\ expListeners = {selectedBankAccount.id}
  /\ incListeners = {selectedBankAccount.id}
  /\ snapExp = <<>>
  /\ snapInc = <<>>
  /\ pending = <<>>
  /\ nextId = MaxId + 1
  /\ trace = Idle
  /\ budgets \in {<<b>> : b \in Budgets}
  /\ storeBudgets = budgets
  /\ budgetProgress = [id \in {} |-> 0]
  /\ today \in BudgetMonths

\* useEffect(() => updateAllBudgetProgress(budgets, expenses), [budgets,
\* expenses]); the observer notes the month the effect ran in and what
\* calculateCategoryExpenses returns for each category in that month
BudgetProgressEffect ==
  /\ NoReminders
  /\ trace.phase = "idle"
  /\ budgetProgress' = updateAllBudgetProgress(budgets, expenses, today)
  /\ trace' = Note("budgetProgress", selectedBankAccount.id,
                   [date |-> today,
                    spent |-> [c \in Categories |->
                                 calculateCategoryExpenses(expenses, c, today)]])
  /\ UNCHANGED <<user, bankAccounts, selectedBankAccount, incomes, expenses,
                 savingsGoals, totalIncome, totalExpense, monthlySavings,
                 storeAccounts, storeIncomes, storeExpenses, storeGoals,
                 expListeners, incListeners, snapExp, snapInc, pending,
                 nextId, budgets, storeBudgets, today>>

\* progress >= percent, for a progress held as a fraction
AtLeast(progress, percent) == progress.num >= percent * progress.den

\* a classification that is over budget only above 100
getStatusAbove(progress, threshold) ==
  IF progress.num > Percent * progress.den
    THEN [label |-> "Over Budget!", color |-> "red"]
    ELSE IF AtLeast(progress, threshold)
           THEN [label |-> "Almost There", color |-> "yellow"]
           ELSE [label |-> "On Track", color |-> "green"]

getStatus(progress, threshold) ==
  IF AtLeast(progress, 100)
    THEN [label |-> "Over Budget!", color |-> "red"]
    ELSE IF AtLeast(progress, threshold)
           THEN [label |-> "Almost There", color |-> "yellow"]
           ELSE [label |-> "On Track", color |-> "green"]

\* the budgets page renders the card of every budget
BudgetsPage ==
  /\ NoReminders
  /\ trace.phase = "budgetProgress"
  /\ trace' =
       Note("status", trace.acct,
            [id \in Ids(budgets) |->
               LET budget == Find(budgets, id)
                   progress == IF id \in DOMAIN budgetProgress
                                 THEN budgetProgress[id]
                                 ELSE Fraction(0, 1)
               IN  getStatus(progress, budget.alertThreshold)])
  /\ UNCHANGED <<user, bankAccounts, selectedBankAccount, incomes, expenses,
                 savingsGoals, totalIncome, totalExpense, monthlySavings,
                 storeAccounts, storeIncomes, storeExpenses, storeGoals,
                 expListeners, incListeners, snapExp, snapInc, pending,
                 nextId, budgets, budgetProgress, storeBudgets, today>>

NextProgress == BudgetProgressEffect \/ BudgetsPage

SpecProgress == InitProgress /\ [][NextProgress]_vars

\* the spend of a category in a month: recurring monthly amounts, a twelfth
\* of recurring yearly amounts, one-time amounts dated in the month
CategorySpend(list, category, date) ==
  MonthlyExpensesOf(SelectSeq(list, LAMBDA e : e.category = category), date)

\* C21: the progress of a budget is categoryExpenses / budgetAmount * 100
\* when budgetAmount is positive, and 0 when it is zero or negative; a
\* budget of 1000 with 850 of matching spend in the month has progress 85.
C21_ProgressWhenPositive ==
  trace.phase = "budgetProgress" =>
    \A k \in 1..Len(budgets) :
      LET budget == budgets[k]
          spend == CategorySpend(expenses, budget.category, today)
          progress == budgetProgress[budget.id]
      IN  /\ IF budget.budgetAmount > 0
               THEN progress = Fraction(spend * Percent, MonthsPerYear * budget.budgetAmount)
               ELSE progress = Fraction(0, 1)
          /\ (budget.budgetAmount = 1000 /\ spend = MonthsPerYear * 850) =>
                progress = Fraction(85, 1)

\* the example: a budget of 1000 and two matching expenses of 350 and 500
C21_Witness ==
  /\ trace.phase = "budgetProgress"
  /\ budgets[1].budgetAmount = 1000
  /\ Len(expenses) = 2
  /\ CategorySpend(expenses, budgets[1].category, today) = MonthsPerYear * 850
  /\ budgetProgress[budgets[1].id] = Fraction(85, 1)

\* C21 as stated: the quotient whenever budgetAmount is not zero.
C21_ProgressWhenNonZero ==
  trace.phase = "budgetProgress" =>
    \A k \in 1..Len(budgets) :
      LET budget == budgets[k]
          spend == CategorySpend(expenses, budget.category, today)
          progress == budgetProgress[budget.id]
      IN  IF budget.budgetAmount # 0
            THEN progress = Fraction(spend * Percent, MonthsPerYear * budget.budgetAmount)
            ELSE progress = Fraction(0, 1)

\* the year a month lies in
YearOf(date) == (date - 1) \div MonthsPerYear

\* the spend of a category over the period of a budget: the month for a
\* monthly budget, and for a yearly budget the amounts of the category's
\* expenses dated in the year
PeriodSpend(list, budget, date) ==
  IF budget.period = "yearly"
    THEN MonthsPerYear * SumAmounts(SelectSeq(list, LAMBDA e : e.category = budget.category /\ YearOf(e.date) = YearOf(date)))
    ELSE CategorySpend(list, budget.category, date)

\* C22: the progress of a budget with a positive amount is the spend of its
\* category over the budget's own period (the year for a yearly budget, the
\* month for a monthly one) divided by budgetAmount, times 100.
C22_ProgressOverOwnPeriod ==
  trace.phase = "budgetProgress" =>
    \A k \in 1..Len(budgets) :
      budgets[k].budgetAmount > 0 =>
        budgetProgress[budgets[k].id] =
          Fraction(PeriodSpend(expenses, budgets[k], today) * Percent,
                   MonthsPerYear * budgets[k].budgetAmount)

\* ------------------------------------------------- budgets in the provider
\* what the budget form and the expense form hand to the provider
BudgetData ==
  [category : Categories, budgetAmount : {0, 12}, period : {"monthly"},
   alertThreshold : {80}]

ExpenseData ==
  [category : Categories, amount : {1}, isRecurring : {FALSE},
   frequency : {"monthly"}, date : {1, 2}]
    \cup [category : Categories, amount : {1}, isRecurring : {TRUE},
          frequency : {"monthly"}, date : {1}]

\* getBudgets(uid, accountId): a budget carries no account, so a store that
\* scopes the list by account returns none and one that does not returns
\* the owner's budgets
getBudgets(store, uid, acct) ==
  {SelectSeq(store, LAMBDA e : e.userId = uid), <<>>}

\* the budget part of the render that follows a step: the effect on
\* [selectedBankAccount] reloads the budgets when the step set the selected
\* account, and the effect on [budgets, expenses] recomputes the map
BudgetsKept ==
  /\ NoReminders
  /\ budgets' = budgets
  /\ storeBudgets' = storeBudgets
  /\ budgetProgress' = updateAllBudgetProgress(budgets, expenses', today)
  /\ today' = today

BudgetsChanged(store, list, op) ==
  /\ NoReminders
  /\ storeBudgets' = store
  /\ budgets' = list
  /\ budgetProgress' = updateAllBudgetProgress(list, expenses, today)
  /\ trace' = Note(op, selectedBankAccount.id, today)
  /\ UNCHANGED <<user, bankAccounts, selectedBankAccount, incomes, expenses,
                 savingsGoals, totalIncome, totalExpense, monthlySavings,
                 storeAccounts, storeIncomes, storeExpenses, storeGoals,
                 expListeners, incListeners, snapExp, snapInc, pending,
                 today>>

AddBudget(budgetData) ==
  /\ user # NoUser
  /\ nextId <= MaxId
  /\ LET budget == [id |-> nextId, userId |-> user,
                    category |-> budgetData.category,
                    budgetAmount |-> budgetData.budgetAmount,
                    period |-> budgetData.period,
                    alertThreshold |-> budgetData.alertThreshold]
     IN BudgetsChanged(Put(storeBudgets, budget), Append(budgets, budget),
                       "addBudget")
  /\ nextId' = nextId + 1

UpdateBudget(budget) ==
  /\ BudgetsChanged(Put(storeBudgets, budget), Replace(budgets, budget),
                    "updateBudget")
  /\ UNCHANGED nextId

DeleteBudget(budgetId) ==
  /\ BudgetsChanged(Remove(storeBudgets, {budgetId}),
                    Without(budgets, budgetId), "deleteBudget")
  /\ UNCHANGED nextId

\* addExpense with the fields the calculations read
AddExpenseOf(bankAccountId, expenseData) ==
  /\ user # NoUser
  /\ nextId <= MaxId
  /\ LET expense == [id |-> nextId, userId |-> UserId,
                     bankAccountId |-> bankAccountId,
                     amount |-> expenseData.amount,
                     category |-> expenseData.category,
                     isRecurring |-> expenseData.isRecurring,
                     frequency |-> expenseData.frequency,
                     date |-> expenseData.date]
     IN ExpensesUpdated(bankAccountId, Append(expenses, expense), TRUE)
  /\ nextId' = nextId + 1

ExpenseMutation ==
  /\ Len(pending) < MaxPending
  /\ \/ \E expenseData \in ExpenseData :
          AddExpenseOf(selectedBankAccount.id, expenseData)
     \/ \E k \in 1..Len(expenses), category \in Categories :
          /\ category # expenses[k].category
          /\ UpdateExpense([expenses[k] EXCEPT !.category = category])
     \/ \E k \in 1..Len(expenses) : DeleteExpense(expenses[k].id)
  /\ BudgetsKept
  /\ trace' = Note("expense", selectedBankAccount.id, today)

\* the recomputation completes; updateBankAccount sets the selected account
\* and its effect reloads the budgets
AccountSaved ==
  /\ NoReminders
  /\ UpdateBankAccountSaved
  /\ storeBudgets' = storeBudgets
  /\ today' = today
  /\ budgets' \in
       IF Head(pending).selId = Head(pending).account.id /\ user # NoUser
         THEN getBudgets(storeBudgets, user, Head(pending).account.id)
         ELSE {budgets}
  /\ budgetProgress' = updateAllBudgetProgress(budgets', expenses', today)
  /\ trace' = Note("saved", selectedBankAccount.id, today)

ExpensesDelivered ==
  /\ ExpensesSnapshot
  /\ BudgetsKept
  /\ trace' = Note("expensesSnapshot", selectedBankAccount.id, today)

\* the month changes; nothing is rendered
NextMonth ==
  /\ NoReminders
  /\ today + 1 \in BudgetMonths
  /\ today' = today + 1
  /\ trace' = Note("month", selectedBankAccount.id, today + 1)
  /\ UNCHANGED <<user, bankAccounts, selectedBankAccount, incomes, expenses,
                 savingsGoals, totalIncome, totalExpense, monthlySavings,
                 storeAccounts, storeIncomes, storeExpenses, storeGoals,
                 expListeners, incListeners, snapExp, snapInc, pending,
                 nextId, budgets, budgetProgress, storeBudgets>>

\* one account, selected and subscribed, whose first expenses snapshot is
\* still to be delivered
InitBudgets ==
  /\ user = UserId
  /\ bankAccounts = <<FirstAccount>>
  /\ storeAccounts = bankAccounts
  /\ selectedBankAccount = FirstAccount
  /\ incomes = <<>>
  /\ expenses = <<>>
  /\ savingsGoals = <<>>
  /\ storeGoals = <<>>
  /\ totalIncome = 0
  /\ totalExpense = 0
  /\ monthlySavings = 0
  /\ storeIncomes = <<>>
  /\ storeExpenses = <<>>
  /\ expListeners = {selectedBankAccount.id}
  /\ incListeners = {selectedBankAccount.id}
  /\ snapExp = Subscribe(<<>>, storeExpenses, selectedBankAccount.id)
  /\ snapInc = <<>>
  /\ pending = <<>>
  /\ nextId = 1
  /\ trace = Idle
  /\ BudgetsEmpty /\ RemindersUnmounted

NextBudgets ==
  \/ \E budgetData \in BudgetData : AddBudget(budgetData)
  \/ \E k \in 1..Len(budgets), amount \in {0, 12} :
       /\ amount # budgets[k].budgetAmount
       /\ UpdateBudget([budgets[k] EXCEPT !.budgetAmount = amount])
  \/ \E k \in 1..Len(budgets) : DeleteBudget(budgets[k].id)
  \/ ExpenseMutation
  \/ AccountSaved
  \/ ExpensesDelivered
  \/ NextMonth

SpecBudgets == InitBudgets /\ [][NextBudgets]_vars

\* C23: after a step that changes the budgets or the expenses, the
\* published budgetProgress has exactly one entry per budget of the working
\* set, equal to calculateBudgetProgress(expenses, budget), and none for a
\* budget that is not in the working set.
C23_ProgressFollowsBudgets ==
  [][(budgets' # budgets \/ expenses' # expenses) =>
       /\ DOMAIN budgetProgress' = Ids(budgets')
       /\ \A k \in 1..Len(budgets') :
            budgetProgress'[budgets'[k].id] =
              calculateBudgetProgress(expenses', budgets'[k], today')]_vars

\* a budget has just been deleted and the one that is left has spend
C23_Witness ==
  /\ trace.phase = "deleteBudget"
  /\ Len(budgets) = 1
  /\ expenses # <<>>
  /\ DOMAIN budgetProgress = {budgets[1].id}
  /\ budgetProgress[budgets[1].id].num > 0

\* ---------------------------------------------------------- budget status
\* C24: the status of a budget is 'Over Budget!' exactly when its progress
\* is at least 100, 'Almost There' exactly when it is at least the alert
\* threshold and below 100, and 'On Track' otherwise; progress 85 with
\* threshold 80 is 'Almost There'.
C24_StatusClassification ==
  trace.phase = "status" =>
    \A k \in 1..Len(budgets) :
      LET progress == budgetProgress[budgets[k].id]
          threshold == budgets[k].alertThreshold
          label == trace.info[budgets[k].id].label
          over == progress.num >= 100 * progress.den
          almost == progress.num >= threshold * progress.den /\ ~over
      IN  /\ label = "Over Budget!" <=> over
          /\ label = "Almost There" <=> almost
          /\ label = "On Track" <=> (~over /\ ~almost)
          /\ (progress = Fraction(85, 1) /\ threshold = 80) =>
                label = "Almost There"

\* the example: progress 85 against a threshold of 80
C24_Witness ==
  /\ trace.phase = "status"
  /\ budgets[1].alertThreshold = 80
  /\ budgetProgress[budgets[1].id] = Fraction(85, 1)
  /\ trace.info[budgets[1].id].label = "Almost There"

\* ------------------------------------------------------ monthly expenses
\* the rules of the monthly sum that count an expense
Rules(expense, date) ==
  {rule \in {"monthly", "yearly", "one-time"} :
     \/ rule = "monthly" /\ expense.isRecurring /\ expense.frequency = "monthly"
     \/ rule = "yearly" /\ expense.isRecurring /\ expense.frequency = "yearly"
     \/ rule = "one-time" /\ ~expense.isRecurring /\ expense.date = date}

\* what an expense adds to the monthly sum, in twelfths
Counted(expense, date) ==
  IF Rules(expense, date) = {} THEN 0
  ELSE IF "yearly" \in Rules(expense, date) THEN expense.amount
  ELSE MonthsPerYear * expense.amount

RECURSIVE SumCounted(_, _)
SumCounted(list, date) ==
  IF list = <<>> THEN 0
  ELSE Counted(Head(list), date) + SumCounted(Tail(list), date)

\* C25: calculateMonthlyExpenses is the sum of the full amount of each
\* recurring monthly expense, a twelfth of each recurring yearly expense and
\* the full amount of each non-recurring expense dated in the month; an
\* expense is counted by one of these rules or by none.
C25_MonthlyExpensesByRule ==
  trace.phase = "summary" =>
    /\ trace.info.summary.totalExpenses = SumCounted(expenses, trace.info.date)
    /\ \A k \in 1..Len(expenses) :
         Cardinality(Rules(expenses[k], trace.info.date)) <= 1

\* a yearly expense and a one-time expense of the month, summed
C25_Witness ==
  /\ trace.phase = "summary"
  /\ Len(expenses) = 2
  /\ Rules(expenses[1], trace.info.date) = {"yearly"}
  /\ Rules(expenses[2], trace.info.date) = {"one-time"}
  /\ trace.info.summary.totalExpenses =
       expenses[1].amount + MonthsPerYear * expenses[2].amount

\* ---------------------------------------------------- category expenses
RECURSIVE SumOver(_, _)
SumOver(set, f) ==
  IF set = {} THEN 0
  ELSE LET x == CHOOSE y \in set : TRUE
       IN  f[x] + SumOver(set \ {x}, f)

NoDate == 0
Clock == {100, 101}
DueDates == {NoDate, 99, 100, 107, 108, 130, 131, 140}
Horizons == {7, 60}

Bills ==
  [id : {1}, userId : {UserId}, bankAccountId : {FirstAccount.id},
   amount : {1}, isRecurring : BOOLEAN, nextDueDate : DueDates]

\* addMonths(date, months), for months of thirty days
addMonths(date, months) == date + 30 * months

\* Array.prototype.sort with the comparator a.nextDueDate - b.nextDueDate:
\* ascending and stable
RECURSIVE Insert(_, _)
Insert(sorted, e) ==
  IF sorted = <<>> THEN <<e>>
  ELSE IF sorted[Len(sorted)].nextDueDate <= e.nextDueDate
         THEN Append(sorted, e)
         ELSE Append(Insert(SubSeq(sorted, 1, Len(sorted) - 1), e),
                     sorted[Len(sorted)])

RECURSIVE Sort(_)
Sort(list) ==
  IF list = <<>> THEN <<>>
  ELSE Insert(Sort(SubSeq(list, 1, Len(list) - 1)), list[Len(list)])

getUpcomingBills(cExpenses, daysAhead, now) ==
  LET futureDate == addMonths(now, 1)
      recurring == SelectSeq(cExpenses, LAMBDA e : e.isRecurring /\ e.nextDueDate # NoDate)
      due == SelectSeq(recurring, LAMBDA e : e.nextDueDate >= now /\ e.nextDueDate <= futureDate)
  IN  Sort(due)

\* the working set holds up to two bills; the observer holds the time of
\* the call and the horizon asked for
InitBills ==
  /\ user = UserId
  /\ bankAccounts = <<FirstAccount>>
  /\ storeAccounts = bankAccounts
  /\ selectedBankAccount = FirstAccount
  /\ incomes = <<>>
  /\ expenses \in
       {<<>>} \cup {<<e>> : e \in Bills}
              \cup {<<e, [f EXCEPT !.id = 2]>> : e \in Bills, f \in Bills}
  /\ savingsGoals = <<>>
  /\ storeGoals = <<>>
  /\ totalIncome = 0
  /\ totalExpense = 0
  /\ monthlySavings = 0
  /\ storeIncomes = <<>>
  /\ storeExpenses = expenses
  /\ expListeners = {}
  /\ incListeners = {}
  /\ snapExp = <<>>
  /\ snapInc = <<>>
  /\ pending = <<>>
  /\ nextId = MaxId + 1
  /\ trace \in {Note("now", selectedBankAccount.id,
                     [now |-> now, daysAhead |-> daysAhead]) :
                  now \in Clock, daysAhead \in Horizons}
  /\ BudgetsEmpty /\ RemindersUnmounted

UpcomingBills ==
  /\ trace.phase = "now"
  /\ trace' = Note("upcomingBills", trace.acct,
                   [now |-> trace.info.now,
                    daysAhead |-> trace.info.daysAhead,
                    bills |-> getUpcomingBills(expenses, trace.info.daysAhead,
                                               trace.info.now)])
  /\ NoBudgets /\ NoReminders
  /\ UNCHANGED <<user, bankAccounts, selectedBankAccount, incomes, expenses,
                 savingsGoals, totalIncome, totalExpense, monthlySavings,
                 storeAccounts, storeIncomes, storeExpenses, storeGoals,
                 expListeners, incListeners, snapExp, snapInc, pending,
                 nextId>>

NextBills == UpcomingBills

SpecBills == InitBills /\ [][NextBills]_vars

\* C27: getUpcomingBills(expenses, horizonDays) returns exactly the
\* recurring expenses with a nextDueDate d, now <= d <= now + horizonDays,
\* in ascending order of due date.
C27_UpcomingWithinHorizon ==
  trace.phase = "upcomingBills" =>
    LET bills == trace.info.bills
        now == trace.info.now
        horizonDays == trace.info.daysAhead
    IN  /\ {bills[k] : k \in 1..Len(bills)} =
             {e \in {expenses[k] : k \in 1..Len(expenses)} :
                /\ e.isRecurring
                /\ e.nextDueDate # NoDate
                /\ now <= e.nextDueDate
                /\ e.nextDueDate <= now + horizonDays}
        /\ \A i, j \in 1..Len(bills) :
             i < j => bills[i].nextDueDate <= bills[j].nextDueDate

\* ------------------------------------------------------- repeated calls
\* budgets.filter(period === 'monthly').reduce((total, b) => total +
\* b.budgetAmount, 0), in twelfths
RECURSIVE monthlyBudget(_)
monthlyBudget(cBudgets) ==
  IF cBudgets = <<>> THEN 0
  ELSE monthlyBudget(SubSeq(cBudgets, 1, Len(cBudgets) - 1))
         + (IF cBudgets[Len(cBudgets)].period = "monthly"
              THEN MonthsPerYear * cBudgets[Len(cBudgets)].budgetAmount
              ELSE 0)

\* every field of the FinancialSummary that a call made at time now returns
FinancialSummaryAt(cIncomes, cExpenses, cBudgets, selectedAccount, date, now) ==
  LET s == calculateFinancialSummaryWithAccount(cIncomes, cExpenses, selectedAccount, date)
  IN  [totalIncome |-> s.totalIncome,
       totalExpenses |-> s.totalExpenses,
       savings |-> s.savings,
       savingsRate |-> s.savingsRate,
       monthlyBudgetUsed |-> s.monthlyBudgetUsed,
       monthlyBudgetRemaining |-> monthlyBudget(cBudgets) - s.monthlyBudgetUsed,
       upcomingBills |-> getUpcomingBills(cExpenses, 7, now)]

DueExpenses ==
  [id : {1}, userId : {UserId}, bankAccountId : {FirstAccount.id},
   category : {"food"}, amount : {1}, isRecurring : BOOLEAN,
   frequency : {"monthly"}, date : {1}, nextDueDate : DueDates]

\* the arguments of the calls are the working sets, the selected account
\* and a reference date; no call has been made
InitCalls ==
  /\ RemindersUnmounted
  /\ user = UserId
  /\ selectedBankAccount \in {NoAccount, FirstAccount}
  /\ bankAccounts =
       IF selectedBankAccount = NoAccount THEN <<>> ELSE <<selectedBankAccount>>
  /\ storeAccounts = bankAccounts
  /\ incomes = <<>>
  /\ expenses \in
       {<<>>} \cup {<<e>> : e \in DueExpenses}
              \cup {<<e, [f EXCEPT !.id = 2]>> : e \in DueExpenses, f \in DueExpenses}
  /\ savingsGoals = <<>>
  /\ storeGoals = <<>>
  /\ totalIncome = 0
  /\ totalExpense = 0
  /\ monthlySavings = 0
  /\ storeIncomes = <<>>
  /\ storeExpenses = expenses
  /\ expListeners = {}
  /\ incListeners = {}
  /\ snapExp = <<>>
  /\ snapInc = <<>>
  /\ pending = <<>>
  /\ nextId = MaxId + 1
  /\ budgets \in {<<b>> : b \in {x \in Budgets : x.category = "food" /\ x.alertThreshold = 80}}
  /\ storeBudgets = budgets
  /\ budgetProgress = [id \in {} |-> 0]
  /\ today \in Months
  /\ trace = Note("calls", selectedBankAccount.id, <<>>)

\* one call of calculateFinancialSummaryWithAccount and one of
\* calculateBudgetProgress, made at time now with the reference date today
Call(now) ==
  /\ NoReminders
  /\ trace.phase = "calls"
  /\ Len(trace.info) < 2
  /\ \A k \in 1..Len(trace.info) : trace.info[k].now <= now
  /\ trace' =
       Note("calls", trace.acct,
            Append(trace.info,
                   [now |-> now,
                    summary |-> FinancialSummaryAt(incomes, expenses, budgets,
                                  selectedBankAccount, today, now),
                    progress |-> calculateBudgetProgress(expenses, budgets[1],
                                                         today)]))
  /\ NoBudgets /\ NoReminders
  /\ UNCHANGED <<user, bankAccounts, selectedBankAccount, incomes, expenses,
                 savingsGoals, totalIncome, totalExpense, monthlySavings,
                 storeAccounts, storeIncomes, storeExpenses, storeGoals,
                 expListeners, incListeners, snapExp, snapInc, pending,
                 nextId>>

NextCalls == \E now \in Clock : Call(now)

SpecCalls == InitCalls /\ [][NextCalls]_vars

\* C28: two calls with the same incomes, expenses, budgets, selected
\* account and reference date return the same value in every field,
\* whenever they are made.
C28_SameArgumentsSameResult ==
  (trace.phase = "calls" /\ Len(trace.info) = 2) =>
    /\ trace.info[1].summary = trace.info[2].summary
    /\ trace.info[1].progress = trace.info[2].progress

\* -------------------------------------------- the recomputation run twice
\* The observer follows a mutation to the end of its recomputation, notes
\* the arrays the recomputation was given and what it left, and then follows
\* an update that hands the same arrays to a second recomputation of the
\* same account.
AutoTracked(goals) == [k \in 1..Len(goals) |-> goals[k].autoTrackedAmount]

WatchedFirstRun ==
  /\ Mutation(MaxPending)
  /\ NoBudgets /\ NoReminders
  /\ trace' = IF Launched
                THEN Note("first", LaunchedFor,
                          [incomes |-> incomes', expenses |-> expenses'])
                ELSE Idle

\* updateIncome or updateExpense called with an entry as it stands
Rerun ==
  /\ trace.phase = "once"
  /\ pending = <<>>
  /\ \/ \E k \in 1..Len(incomes) :
          /\ incomes[k].bankAccountId = trace.acct
          /\ UpdateIncome(incomes[k])
     \/ \E k \in 1..Len(expenses) :
          /\ expenses[k].bankAccountId = trace.acct
          /\ UpdateExpense(expenses[k])
  /\ incomes' = trace.info.incomes
  /\ expenses' = trace.info.expenses
  /\ Launched
  /\ NoBudgets /\ NoReminders
  /\ trace' = Note("second", trace.acct, trace.info)

WatchedRunSaved ==
  /\ UpdateBankAccountSaved
  /\ NoBudgets /\ NoReminders
  /\ trace' =
       IF trace.phase = "first"
         THEN Note("once", trace.acct,
                   [incomes |-> trace.info.incomes,
                    expenses |-> trace.info.expenses,
                    account |-> FindAccount(bankAccounts', trace.acct),
                    goals |-> AutoTracked(savingsGoals')])
         ELSE IF trace.phase = "second"
                THEN Note("twice", trace.acct, trace.info)
                ELSE Idle

NextRerun ==
  \/ WatchedFirstRun
  \/ Rerun
  \/ WatchedRunSaved
  \/ \E k \in 1..Len(bankAccounts) :
       /\ SetSelectedBankAccount(bankAccounts[k])
       /\ NoBudgets /\ NoReminders
       /\ trace' = Idle
  \/ ExpensesSnapshot /\ trace' = Idle /\ NoBudgets /\ NoReminders
  \/ IncomesSnapshot /\ trace' = Idle /\ NoBudgets /\ NoReminders

SpecRerun == InitTwoAccounts /\ [][NextRerun]_vars

\* C29: a second recomputation of the same account with the same income
\* and expense arrays leaves totalIncome, totalExpense and currentBalance of
\* the account, and the autoTrackedAmount of every goal, as the first left
\* them.
C29_RecomputationIdempotent ==
  trace.phase = "twice" =>
    LET account == FindAccount(bankAccounts, trace.acct)
        first == trace.info.account
    IN  /\ account.totalIncome = first.totalIncome
        /\ account.totalExpense = first.totalExpense
        /\ account.currentBalance = first.currentBalance
        /\ FindAccount(storeAccounts, trace.acct) = account
        /\ AutoTracked(savingsGoals) = trace.info.goals

\* the second run has completed for an account with an income, an expense
\* and a goal whose amount is positive
C29_Witness ==
  /\ trace.phase = "twice"
  /\ trace.info.incomes # <<>>
  /\ trace.info.expenses # <<>>
  /\ FindAccount(bankAccounts, trace.acct).currentBalance > 0
  /\ savingsGoals # <<>>
  /\ savingsGoals[1].autoTrackedAmount > 0

\* ------------------------------------------------------- duplicate goals
\* The store holds up to four goals of the owner, in any order of titles;
\* the owner has signed in and has no account.
StoredGoals ==
  UNION {{[k \in 1..n |-> [id |-> MaxId + k, userId |-> UserId,
                           title |-> titles[k], bankAccountId |-> NoId,
                           autoTrackedAmount |-> 0]] :
            titles \in [1..n -> Titles]} : n \in 0..4}

InitDuplicates ==
  /\ user = UserId
  /\ bankAccounts = <<>>
  /\ storeAccounts = <<>>
  /\ selectedBankAccount = NoAccount
  /\ incomes = <<>>
  /\ expenses = <<>>
  /\ savingsGoals = <<>>
  /\ storeGoals \in StoredGoals
  /\ totalIncome = 0
  /\ totalExpense = 0
  /\ monthlySavings = 0
  /\ storeIncomes = <<>>
  /\ storeExpenses = <<>>
  /\ expListeners = {}
  /\ incListeners = {}
  /\ snapExp = <<>>
  /\ snapInc = <<>>
  /\ pending = <<>>
  /\ nextId = MaxId + 1
  /\ trace = Idle
  /\ BudgetsEmpty /\ RemindersUnmounted

\* refreshData; the observer notes the list removeDuplicateGoals is given
\* and the goals the store held
NextDuplicates ==
  \/ RefreshData /\ UNCHANGED trace /\ NoBudgets /\ NoReminders
  \/ /\ RefreshDataLoaded
     /\ NoBudgets /\ NoReminders
     /\ trace' = Note("removeDuplicateGoals", NoId,
                      [goals |-> getSavingsGoals(storeGoals, user,
                                                 Head(pending).selId),
                       store |-> storeGoals])

SpecDuplicates == InitDuplicates /\ [][NextDuplicates]_vars

\* the goals of a list that no earlier goal of the list shares its owner
\* and lower-cased title with, in the order of the list
RECURSIVE FirstOfEachKey(_, _)
FirstOfEachKey(list, k) ==
  IF k > Len(list) THEN <<>>
  ELSE IF \E j \in 1..(k - 1) :
            /\ list[j].userId = list[k].userId
            /\ toLowerCase(list[j].title) = toLowerCase(list[k].title)
         THEN FirstOfEachKey(list, k + 1)
         ELSE <<list[k]>> \o FirstOfEachKey(list, k + 1)

\* C30: removeDuplicateGoals returns the goals in input order, keeping of
\* each (userId, lower-cased title) the first one, deletes from the store
\* exactly the goals it dropped, and applied to its own output returns the
\* same list and deletes nothing.
C30_FirstOfEachTitleKept ==
  trace.phase = "removeDuplicateGoals" =>
    LET input == trace.info.goals
        dropped == Ids(input) \ Ids(savingsGoals)
    IN  /\ savingsGoals = FirstOfEachKey(input, 1)
        /\ storeGoals = SelectSeq(trace.info.store, LAMBDA g : g.id \notin dropped)
        /\ removeDuplicateGoals(savingsGoals) = savingsGoals
        /\ DuplicateGoalIds(savingsGoals) = {}

\* a list of four goals of which two were dropped
C30_Witness ==
  /\ trace.phase = "removeDuplicateGoals"
  /\ Len(trace.info.goals) = 4
  /\ Len(savingsGoals) = 2
  /\ Len(storeGoals) = 2
  /\ savingsGoals[1].id < savingsGoals[2].id

\* ------------------------------------------- goals across a selection
\* the goals a list holds
Goals(list) == {list[k] : k \in 1..Len(list)}

\* the goals the effect on [selectedBankAccount] loads for an account
\* before it calls updateAllAutoTrackedSavings
LoadedGoals(id) == removeDuplicateGoals(getSavingsGoals(storeGoals, user, id))

\* the goals of a list that name an account
Scoped(list) == SelectSeq(list, LAMBDA g : g.bankAccountId # NoId)

\* C31: setSelectedBankAccount(B) leaves the autoTrackedAmount of every goal
\* of another account as it was, in the working set and in the store, and
\* the goals naming an account that the working set holds afterwards are
\* those of the deduplicated list loaded for B, not those held before.
C31_SelectionKeepsOtherGoals ==
  [][\A k \in 1..Len(bankAccounts) :
       SetSelectedBankAccount(bankAccounts[k]) =>
         /\ \A g \in Goals(savingsGoals) \cup Goals(storeGoals) :
              g.bankAccountId \notin {NoId, bankAccounts[k].id} =>
                \A h \in Goals(savingsGoals') \cup Goals(storeGoals') :
                  h.id = g.id => h.autoTrackedAmount = g.autoTrackedAmount
         /\ Ids(Scoped(savingsGoals')) =
              Ids(Scoped(LoadedGoals(bankAccounts[k].id)))]_vars

\* ------------------------------- a selection during a recomputation
\* C32: when setSelectedBankAccount(B) was called while a recomputation of
\* another account A awaited the store and that recomputation completes, the
\* selected account is still B and of bankAccounts only A's entry changes.
C32_SelectionSurvivesRecomputation ==
  [][(/\ UpdateBankAccountSaved
      /\ trace.phase = "selected"
      /\ trace.acct = selectedBankAccount.id
      /\ Head(pending).account.id # trace.acct) =>
        /\ selectedBankAccount'.id = trace.acct
        /\ Len(bankAccounts') = Len(bankAccounts)
        /\ \A k \in 1..Len(bankAccounts) :
             bankAccounts[k].id # Head(pending).account.id
               => bankAccounts'[k] = bankAccounts[k]]_vars

\* ------------------------------------ deletion during a recomputation
\* The owner of the two accounts deletes accounts and enters transactions;
\* a mutation may be issued while the store call of a deletion is pending.
\* The observer keeps the ids of the accounts whose deletion has completed.
DeletedSoFar == IF trace.phase = "deletion" THEN trace.info ELSE {}

\* the entries a list holds, and the accounts of the entries a step has
\* added to, changed in or removed from the working set
Entries(list) == {list[k] : k \in 1..Len(list)}

Touched ==
  {e.bankAccountId :
     e \in (Entries(incomes) \ Entries(incomes'))
             \cup (Entries(incomes') \ Entries(incomes))
             \cup (Entries(expenses) \ Entries(expenses'))
             \cup (Entries(expenses') \ Entries(expenses))}

\* a mutation is issued with nothing in flight or while a deletion is
\* pending; the observer notes the account of a mutation that has started
\* no recomputation
WhileDeleting ==
  IF pending # <<>> /\ Head(pending).kind = "deleteAccount"
    THEN MaxPending + 1
    ELSE MaxPending

Skipped == IF Launched \/ Touched = {} THEN NoId ELSE CHOOSE a \in Touched : TRUE

NextDeletion ==
  \/ \E k \in 1..Len(bankAccounts) :
       /\ DeleteBankAccount(bankAccounts[k].id)
       /\ NoBudgets /\ NoReminders
       /\ trace' = Note("deletion", NoId, DeletedSoFar)
  \/ /\ DeleteBankAccountDone
     /\ NoBudgets /\ NoReminders
     /\ trace' = Note("deletion", NoId,
                      DeletedSoFar \cup {Head(pending).accountId})
  \/ /\ Mutation(WhileDeleting)
     /\ NoBudgets /\ NoReminders
     /\ trace' = Note("deletion", Skipped, DeletedSoFar)
  \/ /\ UpdateBankAccountSaved
     /\ NoBudgets /\ NoReminders
     /\ trace' = Note("deletion", NoId, DeletedSoFar)
  \/ /\ ExpensesSnapshot
     /\ NoBudgets /\ NoReminders
     /\ trace' = Note("deletion", NoId, DeletedSoFar)
  \/ /\ IncomesSnapshot
     /\ NoBudgets /\ NoReminders
     /\ trace' = Note("deletion", NoId, DeletedSoFar)

SpecDeletion == InitTwoAccounts /\ [][NextDeletion]_vars

\* C33: the selected account, when there is one, is an entry of bankAccounts
\* (same id, same totals), and an account whose deletion has completed is
\* neither selected nor held by the store.
C33_SelectedIsListedAccount ==
  /\ selectedBankAccount # NoAccount =>
       \E k \in 1..Len(bankAccounts) : bankAccounts[k] = selectedBankAccount
  /\ selectedBankAccount.id \notin DeletedSoFar
  /\ Ids(storeAccounts) \cap DeletedSoFar = {}

\* ---------------------------------- goals during a recomputation
\* C34: the completion of a recomputation leaves the ids of the goals of the
\* working set and of the store as they were at that moment: a goal added
\* while it was in flight stays, a goal deleted while it was in flight does
\* not come back and is not stored again.
C34_RecomputationKeepsGoalIds ==
  [][UpdateBankAccountSaved =>
       /\ Ids(savingsGoals') = Ids(savingsGoals)
       /\ Ids(storeGoals') = Ids(storeGoals)]_vars

\* ------------------------------------- rejected account operations
\* The owner of the two accounts opens and deletes accounts and enters
\* transactions, and the store may reject the call a handler awaits.  The
\* observer keeps which of addBankAccount (with a starting balance) and
\* deleteBankAccount have been cut off so far.
RejectedSoFar == IF trace.phase = "rejection" THEN trace.info ELSE {}

Rejected(task) ==
  IF task.kind = "deleteAccount" THEN {"deleteBankAccount"}
  ELSE IF task.kind = "addAccount"
    THEN IF task.account.startingBalance > 0 THEN {"addBankAccount"} ELSE {}
  ELSE {}

NextRejection ==
  \/ /\ \E startingBalance \in Balances : AddBankAccount(startingBalance)
     /\ NoBudgets /\ NoReminders
     /\ trace' = Note("rejection", NoId, RejectedSoFar)
  \/ /\ \E k \in 1..Len(bankAccounts) : DeleteBankAccount(bankAccounts[k].id)
     /\ NoBudgets /\ NoReminders
     /\ trace' = Note("rejection", NoId, RejectedSoFar)
  \/ /\ AddBankAccountSaved
     /\ NoBudgets /\ NoReminders
     /\ trace' = Note("rejection", NoId, RejectedSoFar)
  \/ /\ DeleteBankAccountDone
     /\ NoBudgets /\ NoReminders
     /\ trace' = Note("rejection", NoId, RejectedSoFar)
  \/ /\ StorageError
     /\ NoBudgets /\ NoReminders
     /\ trace' = Note("rejection", NoId,
                      RejectedSoFar \cup Rejected(Head(pending)))
  \/ /\ Mutation(MaxPending)
     /\ NoBudgets /\ NoReminders
     /\ trace' = Note("rejection", NoId, RejectedSoFar)
  \/ /\ UpdateBankAccountSaved
     /\ NoBudgets /\ NoReminders
     /\ trace' = Note("rejection", NoId, RejectedSoFar)
  \/ /\ ExpensesSnapshot
     /\ NoBudgets /\ NoReminders
     /\ trace' = Note("rejection", NoId, RejectedSoFar)
  \/ /\ IncomesSnapshot
     /\ NoBudgets /\ NoReminders
     /\ trace' = Note("rejection", NoId, RejectedSoFar)

SpecRejection == InitTwoAccounts /\ [][NextRejection]_vars

\* the accounts, the selection and the incomes, published and stored
AccountsAndIncomes ==
  <<bankAccounts, selectedBankAccount, incomes, storeAccounts, storeIncomes,
    expListeners, incListeners>>

\* C35: addBankAccount and deleteBankAccount change nothing before their
\* store call returns, and when the store rejects it, bankAccounts, the
\* selected account, the incomes and the stored accounts and incomes are
\* unchanged and no recomputation is started (so no 'Initial Balance' income
\* is created).
C35_PersistBeforeApply ==
  [][/\ (StorageError /\ Head(pending).kind \in {"addAccount", "deleteAccount"})
          => /\ UNCHANGED AccountsAndIncomes
             /\ pending' = Tail(pending)
     /\ (\E startingBalance \in Balances : AddBankAccount(startingBalance))
          => UNCHANGED AccountsAndIncomes
     /\ (\E k \in 1..Len(bankAccounts) : DeleteBankAccount(bankAccounts[k].id))
          => UNCHANGED AccountsAndIncomes]_vars

\* the store has rejected an addBankAccount with a starting balance and a
\* deleteBankAccount, and the owner still has the two accounts and no income
C35_Witness ==
  /\ RejectedSoFar = {"addBankAccount", "deleteBankAccount"}
  /\ Len(bankAccounts) = 2
  /\ incomes = <<>>
  /\ storeIncomes = <<>>
  /\ pending = <<>>

\* ------------------------------------------------- without a user
\* The provider with one account and one income, expense, budget or goal,
\* saved and delivered, either in a session or as the session left it when
\* the user signed out (the listeners are cleaned up, the state stays).
\* Every operation of the context can be called; one more id can be
\* generated.
SessionIncome ==
  [id |-> MaxId + 4, userId |-> UserId, bankAccountId |-> FirstAccount.id,
   amount |-> 1]

SessionExpense ==
  [id |-> MaxId + 5, userId |-> UserId, bankAccountId |-> FirstAccount.id,
   amount |-> 1, category |-> "food", isRecurring |-> FALSE,
   frequency |-> "monthly", date |-> 1]

SessionBudget ==
  [id |-> MaxId + 6, userId |-> UserId, category |-> "food",
   budgetAmount |-> 12, period |-> "monthly", alertThreshold |-> 80]

InitSession ==
  /\ RemindersUnmounted
  /\ user \in {NoUser, UserId}
  /\ \E held \in {"income", "expense", "budget", "goal"} :
       /\ incomes = IF held = "income" THEN <<SessionIncome>> ELSE <<>>
       /\ expenses = IF held = "expense" THEN <<SessionExpense>> ELSE <<>>
       /\ budgets = IF held = "budget" THEN <<SessionBudget>> ELSE <<>>
       /\ savingsGoals = IF held = "goal" THEN <<FirstGoal(NoId)>> ELSE <<>>
  /\ storeIncomes = incomes
  /\ storeExpenses = expenses
  /\ storeBudgets = budgets
  /\ storeGoals = savingsGoals
  /\ selectedBankAccount = UpdatedAccount(FirstAccount, incomes, expenses)
  /\ bankAccounts = <<selectedBankAccount>>
  /\ storeAccounts = bankAccounts
  /\ today = 1
  /\ budgetProgress = updateAllBudgetProgress(budgets, expenses, today)
  /\ totalIncome = SumAmounts(incomes)
  /\ totalExpense = SumAmounts(expenses)
  /\ monthlySavings = totalIncome - totalExpense
  /\ expListeners = IF user = NoUser THEN {} ELSE {selectedBankAccount.id}
  /\ incListeners = expListeners
  /\ snapExp = <<>>
  /\ snapInc = <<>>
  /\ pending = <<>>
  /\ nextId = MaxId
  /\ trace = Idle

\* the budget part of the render that follows the completion of
\* addBankAccount or deleteBankAccount
BudgetsReloaded ==
  /\ NoReminders
  /\ storeBudgets' = storeBudgets
  /\ today' = today
  /\ budgets' \in
       IF /\ selectedBankAccount' # selectedBankAccount
          /\ selectedBankAccount' # NoAccount
          /\ user # NoUser
         THEN getBudgets(storeBudgets, user, selectedBankAccount'.id)
         ELSE {budgets}
  /\ budgetProgress' = updateAllBudgetProgress(budgets', expenses', today)

IncomeMutation ==
  /\ Len(pending) < MaxPending
  /\ \/ \E amount \in Amounts : AddIncome(selectedBankAccount.id, amount)
     \/ \E k \in 1..Len(incomes), amount \in Amounts :
          /\ amount # incomes[k].amount
          /\ UpdateIncome([incomes[k] EXCEPT !.amount = amount])
     \/ \E k \in 1..Len(incomes) : DeleteIncome(incomes[k].id)

NextSession ==
  \/ IncomeMutation /\ NoBudgets /\ NoReminders /\ trace' = Idle
  \/ ExpenseMutation
  \/ \E budgetData \in BudgetData : AddBudget(budgetData)
  \/ \E k \in 1..Len(budgets), amount \in {0, 12} :
       /\ amount # budgets[k].budgetAmount
       /\ UpdateBudget([budgets[k] EXCEPT !.budgetAmount = amount])
  \/ \E k \in 1..Len(budgets) : DeleteBudget(budgets[k].id)
  \/ (\E title \in Titles : AddSavingsGoal(title, NoId))
       /\ NoBudgets /\ NoReminders /\ trace' = Idle
  \/ (\E k \in 1..Len(savingsGoals), title \in Titles :
        /\ title # savingsGoals[k].title
        /\ UpdateSavingsGoal([savingsGoals[k] EXCEPT !.title = title]))
       /\ NoBudgets /\ NoReminders /\ trace' = Idle
  \/ (\E k \in 1..Len(savingsGoals) : DeleteSavingsGoal(savingsGoals[k].id))
       /\ NoBudgets /\ NoReminders /\ trace' = Idle
  \/ (\E startingBalance \in Balances : AddBankAccount(startingBalance))
       /\ NoBudgets /\ NoReminders /\ trace' = Idle
  \/ (\E k \in 1..Len(bankAccounts) : DeleteBankAccount(bankAccounts[k].id))
       /\ NoBudgets /\ NoReminders /\ trace' = Idle
  \/ AddBankAccountSaved /\ BudgetsReloaded /\ trace' = Idle
  \/ DeleteBankAccountDone /\ BudgetsReloaded /\ trace' = Idle
  \/ AccountSaved
  \/ ExpensesDelivered
  \/ IncomesSnapshot /\ NoBudgets /\ NoReminders /\ trace' = Idle

SpecSession == InitSession /\ [][NextSession]_vars

\* the state the context publishes and the store
PublishedAndStored ==
  <<bankAccounts, selectedBankAccount, incomes, expenses, savingsGoals,
    budgets, budgetProgress, totalIncome, totalExpense, monthlySavings,
    storeAccounts, storeIncomes, storeExpenses, storeGoals, storeBudgets>>

\* C36: while no user is authenticated, no operation of the context changes
\* the published state or the store.
C36_NothingWithoutUser ==
  [][user = NoUser => UNCHANGED PublishedAndStored]_vars

\* ------------------------------------ the reach of a recomputation
\* the sum of the amounts of the entries of a list that belong to an account
RECURSIVE SumFor(_, _)
SumFor(list, id) ==
  IF list = <<>> THEN 0
  ELSE (IF Head(list).bankAccountId = id THEN Head(list).amount ELSE 0)
         + SumFor(Tail(list), id)

\* the entries of a list of accounts other than the one with this id
OtherAccountsKept(before, after, id) ==
  \A k \in 1..Len(before) :
    before[k].id # id => (k <= Len(after) /\ after[k] = before[k])

\* C37: a mutation of a transaction of account A starts a recomputation of A
\* whose totals count the incomes and expenses of A only, provided A is in
\* bankAccounts; otherwise it starts none and accounts, selection and goals,
\* published and stored, stay as they are.  The completion of a
\* recomputation of A leaves every other account of bankAccounts and of the
\* store as it was.
C37_RecomputationTouchesOneAccount ==
  [][/\ Mutation(WhileDeleting) =>
          IF Touched \subseteq Ids(bankAccounts)
            THEN /\ Launched
                 /\ LET account == pending'[Len(pending')].account
                    IN /\ Touched = {account.id}
                       /\ account.totalIncome = SumFor(incomes', account.id)
                       /\ account.totalExpense = SumFor(expenses', account.id)
                       /\ account.currentBalance =
                            account.totalIncome - account.totalExpense
            ELSE /\ ~Launched
                 /\ UNCHANGED <<bankAccounts, selectedBankAccount,
                                storeAccounts, savingsGoals, storeGoals>>
     /\ UpdateBankAccountSaved =>
          /\ Len(bankAccounts') = Len(bankAccounts)
          /\ OtherAccountsKept(bankAccounts, bankAccounts',
                               Head(pending).account.id)
          /\ OtherAccountsKept(storeAccounts, storeAccounts',
                               Head(pending).account.id)]_vars

\* a mutation of an expense of a deleted account has just started no
\* recomputation, while the working set holds expenses of two accounts and
\* the remaining account has been recomputed from its own
C37_Witness ==
  /\ trace.phase = "deletion"
  /\ trace.acct # NoId
  /\ trace.acct \notin Ids(bankAccounts)
  /\ pending = <<>>
  /\ Len(bankAccounts) = 1
  /\ bankAccounts[1].totalExpense > 0
  /\ bankAccounts[1].totalExpense = SumFor(expenses, bankAccounts[1].id)
  /\ SumFor(expenses, trace.acct) > 0

\* --------------------------------------------------------- bill reminders
\* BillReminderProvider keeps every user's reminders in one list, loads it
\* from localStorage in an effect of its first render and saves it in an
\* effect of every later render.  State setters called from effects and
\* handlers are queued and applied in call order by the next render; the
\* effects of a render run after it, and before the render that follows.

\* a second user of the same browser
OtherUserId == "u2"

\* reminders found in storage at start carry ids above the generated ones
StoredIds == {MaxFresh + 1, MaxFresh + 2}

\* BillReminder, reduced to the fields the provider reads or writes
Reminder(id, userId, isPaid) == [id |-> id, userId |-> userId, isPaid |-> isPaid]

\* JSON.stringify(allReminders): ids, user ids and flags survive unchanged
stringify(list) == [kind |-> "array", items |-> list]

\* a stored text that is no JSON at all, and one that is JSON but no array
Garbage == [kind |-> "garbage", items |-> <<>>]
NotArray == [kind |-> "object", items |-> <<>>]

\* the load effect, lines 511-525: the setters it calls, in order
LoadEffect(initialized, stored) ==
  IF initialized THEN <<>>
  ELSE (IF stored.kind = "array" THEN <<[op |-> "set", value |-> stored.items]>>
        ELSE IF stored.kind = "garbage" THEN <<[op |-> "set", value |-> <<>>]>>
        ELSE <<>>)
       \o <<[op |-> "initialized"]>>

\* the filter effect, lines 530-537, once useAuth has finished loading
FilterEffect(initialized, uid, list, shown) ==
  IF ~initialized THEN shown
  ELSE IF uid # NoUser THEN SelectSeq(list, LAMBDA r : r.userId = uid)
  ELSE <<>>

\* the save effect without its test of isInitialized
SaveEffectAlways(initialized, list, stored) ==
  stringify(list)

\* the save effect, lines 542-548
SaveEffect(initialized, list, stored) ==
  IF initialized THEN stringify(list) ELSE stored

\* one queued update applied to the list it finds
Applied(update, prev) ==
  CASE update.op = "set" -> update.value
    [] update.op = "add" -> Append(prev, update.reminder)
    [] update.op = "delete" -> SelectSeq(prev, LAMBDA r : r.id # update.id)
    [] update.op = "paid" ->
         [k \in 1..Len(prev) |->
            IF prev[k].id = update.id
              THEN Reminder(prev[k].id, prev[k].userId, TRUE)
              ELSE prev[k]]
    [] OTHER -> prev

RECURSIVE AppliedAll(_, _)
AppliedAll(updates, prev) ==
  IF updates = <<>> THEN prev
  ELSE AppliedAll(Tail(updates), Applied(Head(updates), prev))

\* the ledger of DataContext is not involved
NoLedger == UNCHANGED <<user, bankAccounts, selectedBankAccount, incomes, expenses, savingsGoals, totalIncome, totalExpense, monthlySavings, storeAccounts, storeIncomes, storeExpenses, storeGoals, expListeners, incListeners, snapExp, snapInc, pending>>

\* observer: the ids found in storage at start and the ids deleteReminder
\* was called with
Deleted(ids) == Note("reminders", NoId, [stored |-> trace.info.stored, deleted |-> trace.info.deleted \cup (ids \cap trace.info.stored)])

\* most updates waiting for one render
MaxQueued == MaxPending + 1

\* a handler may be called while fewer than MaxQueued updates wait
Queue(update) ==
  /\ Len(reminderUpdates) < MaxQueued
  /\ reminderUpdates' = Append(reminderUpdates, update)
  /\ UNCHANGED <<allReminders, reminders, isInitialized, localStorage, effects>>
  /\ NoLedger /\ NoBudgets

\* the effects of the first render, in the order they are declared
Mount ==
  /\ effects = "mount"
  /\ reminderUpdates' = reminderUpdates \o LoadEffect(isInitialized, localStorage)
  /\ reminders' = FilterEffect(isInitialized, user, allReminders, reminders)
  /\ localStorage' = SaveEffect(isInitialized, allReminders, localStorage)
  /\ effects' = "flushed"
  /\ UNCHANGED <<allReminders, isInitialized, nextId, trace>>
  /\ NoLedger /\ NoBudgets

\* a render applies the queued updates; its effects are then due
Render ==
  /\ effects = "flushed"
  /\ reminderUpdates # <<>>
  /\ allReminders' = AppliedAll(reminderUpdates, allReminders)
  /\ isInitialized' =
       (isInitialized \/ \E k \in 1..Len(reminderUpdates) : reminderUpdates[k].op = "initialized")
  /\ reminderUpdates' = <<>>
  /\ effects' = "due"
  /\ UNCHANGED <<reminders, localStorage, nextId, trace>>
  /\ NoLedger /\ NoBudgets

\* the effects of a later render
RunEffects ==
  /\ effects = "due"
  /\ reminderUpdates' = reminderUpdates \o LoadEffect(isInitialized, localStorage)
  /\ reminders' = FilterEffect(isInitialized, user, allReminders, reminders)
  /\ localStorage' = SaveEffect(isInitialized, allReminders, localStorage)
  /\ effects' = "flushed"
  /\ UNCHANGED <<allReminders, isInitialized, nextId, trace>>
  /\ NoLedger /\ NoBudgets

\* the reminders a page can show a button for: those of the list and those
\* about to be in it
Known ==
  Ids(allReminders) \cup trace.info.stored \cup {reminderUpdates[k].reminder.id : k \in {j \in 1..Len(reminderUpdates) : reminderUpdates[j].op = "add"}}

\* addReminder, lines 551-559; the id is new: it starts with the clock
AddReminder(userId) ==
  /\ nextId <= MaxFresh
  /\ Queue([op |-> "add", reminder |-> Reminder(nextId, userId, FALSE)])
  /\ nextId' = nextId + 1
  /\ UNCHANGED trace

\* deleteReminder, lines 561-563
DeleteReminder(id) ==
  /\ id \in Known
  /\ Queue([op |-> "delete", id |-> id])
  /\ trace' = Deleted({id})
  /\ UNCHANGED nextId

\* markAsPaid, lines 565-569
MarkAsPaid(id) ==
  /\ id \in Known
  /\ Queue([op |-> "paid", id |-> id])
  /\ UNCHANGED <<nextId, trace>>

\* what the browser may hold when the provider is first rendered
StoredAtStart ==
  {NoItem, Garbage, NotArray, stringify(<<>>)}
    \cup {stringify(<<Reminder(MaxFresh + 1, UserId, FALSE)>>)}
    \cup {stringify(<<Reminder(MaxFresh + 1, UserId, FALSE), Reminder(MaxFresh + 2, OtherUserId, p)>>) : p \in BOOLEAN}

InitReminders ==
  /\ user \in {NoUser, UserId}
  /\ bankAccounts = <<>>
  /\ selectedBankAccount = NoAccount
  /\ incomes = <<>>
  /\ expenses = <<>>
  /\ savingsGoals = <<>>
  /\ totalIncome = 0
  /\ totalExpense = 0
  /\ monthlySavings = 0
  /\ storeAccounts = <<>>
  /\ storeIncomes = <<>>
  /\ storeExpenses = <<>>
  /\ storeGoals = <<>>
  /\ expListeners = {}
  /\ incListeners = {}
  /\ snapExp = <<>>
  /\ snapInc = <<>>
  /\ pending = <<>>
  /\ nextId = 1
  /\ BudgetsEmpty
  /\ allReminders = <<>>
  /\ reminders = <<>>
  /\ isInitialized = FALSE
  /\ localStorage \in StoredAtStart
  /\ reminderUpdates = <<>>
  /\ effects = "mount"
  /\ trace = Note("reminders", NoId, [stored |-> Ids(localStorage.items), deleted |-> {}])

NextReminders ==
  \/ Mount
  \/ Render
  \/ RunEffects
  \/ \E userId \in {user} \ {NoUser} : AddReminder(userId)
  \/ \E id \in 1..MaxFresh \cup StoredIds : DeleteReminder(id)
  \/ \E id \in 1..MaxFresh \cup StoredIds : MarkAsPaid(id)

SpecReminders == InitReminders /\ [][NextReminders]_vars

\* React renders once updates are queued and runs the effects of every
\* render it has committed
SpecRemindersFair ==
  SpecReminders /\ WF_vars(Mount) /\ WF_vars(Render) /\ WF_vars(RunEffects)

\* the stored text is the list the provider holds
Saved == isInitialized /\ localStorage = stringify(allReminders)

\* every reminder found in storage at start is still stored, unless
\* deleteReminder was called with its id
StoredKept == trace.info.stored \ trace.info.deleted \subseteq Ids(localStorage.items)

\* a reminder that is paid in the first list and still in the second is paid there
PaidKept(before, after) ==
  \A k \in 1..Len(before) : \A j \in 1..Len(after) :
    (before[k].isPaid /\ after[j].id = before[k].id) => after[j].isPaid

====
